---- MODULE Spec2Model ----
(***************************************************************************)
(* A model of generate_videos.py: the VHSTape document (construction and   *)
(* rendering to text) and the driver main() that writes the tapes and      *)
(* runs the recorder.                                                      *)
(*                                                                         *)
(* Representation of Python strings.  A str is modelled as a text: a       *)
(* non-empty sequence of lines, a line being a sequence of tokens (TLA+    *)
(* strings).  "" is the text with one empty line, << <<>> >>.  A token is  *)
(* a piece of the string that no operation of the program looks inside:    *)
(* a placeholder "{0}", a path separator "/", a file extension ".zip", a   *)
(* character of a tape name, or a literal fragment of a command.  A str    *)
(* that never holds a newline (a path, a name, a term) is a single line.   *)
(* The backquote of the tape language is written ~ in the tokens.          *)
(***************************************************************************)
EXTENDS Integers, Sequences, FiniteSets, TLC

VARIABLES
    tapes,        \* the VHSTape objects (VHS_TAPES), a sequence of records
    built,        \* the constructor arguments each tape was built from
    rendered,     \* per tape: the result of the last call of __str__
    prevRendered, \* per tape: the result of the call of __str__ before it
    hashSeed,     \* the process's string hash seed (fixes set iteration order)
    pc,           \* main(): the position of the driver
    hostTheme,    \* the theme of the host as darkman holds it
    initial_theme,\* main(): the local initial_theme
    search_term,  \* main(): args.search_term
    vhs_tapes,    \* main(): the local list of selected tapes (indices)
    dirExists,    \* whether ./vhs_tapes exists
    files,        \* the files in ./vhs_tapes: path -> content
    threads,      \* per selected tape: state of its write_to_file thread
    recIndex,     \* main(): position of the recorder loop in vhs_tapes
    running,      \* the recorder processes that are running now
    recLog,       \* the recorder invocations so far, in order of start
    darkmanLog,   \* the darkman set commands issued so far
    configCall,   \* the arguments of the edit_plugin_config call of line 688
    batch,        \* the batch media converter: the position of the batch
    jobs,         \* the batch media converter: the state of each job
    shell         \* the shell of a recording: directory, files, lines to type

vars == <<tapes, built, rendered, prevRendered, hashSeed, pc, hostTheme,
          initial_theme, search_term, vhs_tapes, dirExists, files, threads,
          recIndex, running, recLog, darkmanLog, configCall, batch, jobs,
          shell>>

tapeVars == <<tapes, built, rendered, prevRendered, hashSeed>>

mainVars == <<pc, hostTheme, initial_theme, search_term, vhs_tapes, dirExists,
              files, threads, recIndex, running, recLog, darkmanLog>>

otherVars == <<configCall, batch, jobs, shell>>

(***************************************************************************)
(* Bounds of the model.                                                    *)
(***************************************************************************)
\* longest files_and_directories list of a generated document
MaxPaths == 2
\* longest scripts list of a generated document
MaxScripts == 2
\* hash seeds 0..MaxSeed are tried
MaxSeed == 1
\* most session files the batch media converter discovers
MaxJobs == 2
\* largest number_of_nested_archives of a generated document
MaxNested == 3

\* no recording is made: there is no shell
NoShell == [phase |-> "none"]

(***************************************************************************)
(* Python values.                                                          *)
(***************************************************************************)
None == "None"

\* the truth value of a str | None
Truthy(s) == s # None /\ s # ""

\* the empty str
EmptyStr == << <<>> >>

(***************************************************************************)
(* Module constants of generate_videos.py.                                 *)
(***************************************************************************)
WORKING_DIRECTORY == <<"WORKING_DIRECTORY">>

VHS_TAPES_DIRECTORY == <<".", "/", "vhs_tapes">>

PLUGIN_FILE_NAME == "main.lua"

ARCHIVE_FILE_EXTENSIONS == {".zip", ".7z"}

DEFAULT_KEY == "e"

DEFAULT_TEXT_FILE_CONTENT == "Hello, world!"

CONFIG ==
    << <<"Set FontSize 20">>,
       <<"Set FontFamily \"Maple Mono NF CN\"">>,
       <<"Set Theme \"BlulocoDark\"">>,
       <<"Set Padding 20">>,
       <<"Set Margin 0">> >>

NORMAL_TYPING_SPEED == << <<"Set TypingSpeed 150ms">> >>

FAST_TYPING_SPEED == << <<"Set TypingSpeed 0.1ms">> >>

LONG_SLEEP_TIME == << <<"Sleep 2s">> >>

SLEEP_TIME == << <<"Sleep 1s">> >>

SHORT_SLEEP_TIME == << <<"Sleep 500ms">> >>

CHANGE_TO_WORKING_DIRECTORY ==
    << <<"Type \"cd ">> \o WORKING_DIRECTORY \o <<"\" Enter">> >>

CLEAR_SCREEN == << <<"Type 'clear' Enter">> >>

(***************************************************************************)
(* str operations.                                                         *)
(***************************************************************************)
RECURSIVE Flatten(_)
\* the concatenation of a sequence of sequences
Flatten(ss) ==
    IF ss = <<>> THEN <<>> ELSE Head(ss) \o Flatten(Tail(ss))

\* "\n".join(list): the lines of every element, in order; "" for no element
JoinNL(list) ==
    IF list = <<>> THEN EmptyStr ELSE Flatten(list)

RECURSIVE JoinSpace(_)
\* " ".join(list) of single-line strs, as one line
JoinSpace(list) ==
    IF list = <<>> THEN <<>>
    ELSE IF Len(list) = 1 THEN Head(list)
    ELSE Head(list) \o <<" ">> \o JoinSpace(Tail(list))

\* the replacement fields str.format knows in the model, with their index
FieldIndex == [t \in {"{0}", "{1}", "{2}"} |->
                  CASE t = "{0}" -> 0 [] t = "{1}" -> 1 [] t = "{2}" -> 2]

IsField(tok) == tok \in DOMAIN FieldIndex

\* "{" + str(index) + "}"
FieldOf(index) == CHOOSE t \in DOMAIN FieldIndex : FieldIndex[t] = index

\* str.format(*args) raises IndexError for a field past the arguments
FormatRaises(text, args) ==
    \E l \in 1..Len(text) : \E k \in 1..Len(text[l]) :
        IsField(text[l][k]) /\ FieldIndex[text[l][k]] >= Len(args)

\* the mutated str.format that puts the first argument in every field
FormatLineFirstArgument(line, args) ==
    Flatten([k \in 1..Len(line) |->
        IF IsField(line[k]) THEN args[1] ELSE <<line[k]>>])

RECURSIVE FormatLine(_, _)
\* str.format on one line: every field is replaced by its argument, in one
\* pass from left to right; the inserted text is not scanned again
FormatLine(line, args) ==
    IF line = <<>> THEN <<>>
    ELSE (IF IsField(Head(line))
          THEN args[FieldIndex[Head(line)] + 1]
          ELSE <<Head(line)>>) \o FormatLine(Tail(line), args)

\* str.format(*args) on a text (the arguments hold no newline)
Format(text, args) == [l \in 1..Len(text) |-> FormatLine(text[l], args)]

RECURSIVE LStrip(_)
LStrip(text) ==
    IF text # <<>> /\ Head(text) = <<>> THEN LStrip(Tail(text)) ELSE text

RECURSIVE RStrip(_)
RStrip(text) ==
    IF text # <<>> /\ text[Len(text)] = <<>>
    THEN RStrip(SubSeq(text, 1, Len(text) - 1)) ELSE text

\* str.strip(): leading and trailing whitespace goes; at the granularity of
\* the model that is the leading and the trailing empty lines
Strip(text) ==
    LET t == RStrip(LStrip(text)) IN IF t = <<>> THEN EmptyStr ELSE t

(***************************************************************************)
(* Paths: a path is one line; "/" is a token of its own and an extension   *)
(* (".zip") is the last token of its file name.                            *)
(***************************************************************************)
RECURSIVE LStripSlash(_)
LStripSlash(p) ==
    IF p # <<>> /\ Head(p) = "/" THEN LStripSlash(Tail(p)) ELSE p

RECURSIVE RStripSlash(_)
RStripSlash(p) ==
    IF p # <<>> /\ p[Len(p)] = "/"
    THEN RStripSlash(SubSeq(p, 1, Len(p) - 1)) ELSE p

\* item.strip("/"): the slashes at both ends of the str are removed
StripSlash(item) == RStripSlash(LStripSlash(item))

RECURSIVE LastComponent(_)
\* the tokens after the last "/" of a path without trailing slash
LastComponent(p) ==
    IF \E k \in 1..Len(p) : p[k] = "/" THEN LastComponent(Tail(p)) ELSE p

\* Path(item).name: the final component, trailing slashes ignored
PathName(item) == LastComponent(RStripSlash(item))

IsExtension(tok) == tok \in {".zip", ".7z", ".txt"}

\* Path(item).suffix: the last dot-part of the name, if it is not all of it
PathSuffix(item) ==
    LET n == PathName(item) IN
    IF Len(n) > 1 /\ IsExtension(n[Len(n)]) THEN n[Len(n)] ELSE ""

\* Path(item).stem: the name without its suffix
PathStem(item) ==
    LET n == PathName(item) IN
    IF PathSuffix(item) = "" THEN n ELSE SubSeq(n, 1, Len(n) - 1)

(***************************************************************************)
(* Iteration order of a Python set of strs.  It is fixed by the hashes of   *)
(* the elements, that is by the elements and the seed of the process: the  *)
(* elements come in the order of a key computed from both.                 *)
(***************************************************************************)
Alphabet ==
    <<"yazi", "clear", "rm", "sed", "echo", "7z", "mv", "nano",
      "/", "dir", "tmp", "demo", ".zip", ".7z", ".txt", "demo_dir">>

RankOf ==
    [t \in {Alphabet[i] : i \in 1..Len(Alphabet)} |->
        CHOOSE i \in 1..Len(Alphabet) : Alphabet[i] = t]

TokRank(t) == RankOf[t]

RECURSIVE StrCode(_)
\* an injective code of a one-line str over Alphabet
StrCode(s) ==
    IF s = <<>> THEN 0
    ELSE StrCode(SubSeq(s, 1, Len(s) - 1)) * 17 + TokRank(s[Len(s)])

HashKey(code, seed) == ((code % 1009) * (seed + 1) * 31) % 1009

HashBefore(c, d, seed) ==
    \/ HashKey(c, seed) < HashKey(d, seed)
    \/ HashKey(c, seed) = HashKey(d, seed) /\ c <= d

RECURSIVE IterTools(_, _)
\* the elements of a set of program names in iteration order
IterTools(S, seed) ==
    IF S = {} THEN <<>>
    ELSE LET x == CHOOSE x \in S : \A y \in S :
                      HashBefore(TokRank(x), TokRank(y), seed)
         IN <<x>> \o IterTools(S \ {x}, seed)

RECURSIVE IterPaths(_, _)
\* the elements of a set of paths in iteration order
IterPaths(S, seed) ==
    IF S = {} THEN <<>>
    ELSE LET x == CHOOSE x \in S : \A y \in S :
                      HashBefore(StrCode(x), StrCode(y), seed)
         IN <<x>> \o IterPaths(S \ {x}, seed)

(***************************************************************************)
(* Tape names are sequences of characters.                                 *)
(***************************************************************************)
UpperCase ==
    <<"A", "B", "C", "D", "E", "F", "G", "H", "I", "J", "K", "L", "M",
      "N", "O", "P", "Q", "R", "S", "T", "U", "V", "W", "X", "Y", "Z">>

LowerCase ==
    <<"a", "b", "c", "d", "e", "f", "g", "h", "i", "j", "k", "l", "m",
      "n", "o", "p", "q", "r", "s", "t", "u", "v", "w", "x", "y", "z">>

LowerChar(c) ==
    IF \E i \in 1..Len(UpperCase) : UpperCase[i] = c
    THEN LowerCase[CHOOSE i \in 1..Len(UpperCase) : UpperCase[i] = c]
    ELSE c

\* str.lower()
Lower(s) == [i \in 1..Len(s) |-> LowerChar(s[i])]

\* str.replace(" ", "_")
ReplaceSpaces(s) == [i \in 1..Len(s) |-> IF s[i] = " " THEN "_" ELSE s[i]]

(***************************************************************************)
(* class Script                                                            *)
(***************************************************************************)
\* Script(setup=..., clean_up=..., required_programs=...)
Script(setup, clean_up, required_programs) ==
    [setup |-> setup, clean_up |-> clean_up,
     required_programs |-> required_programs]

(***************************************************************************)
(* The fragment builders (static methods of VHSTape).                      *)
(***************************************************************************)
\* Python values handed to edit_plugin_config
PyBool(b) == [kind |-> "bool", v |-> b]

PyStr(s) == [kind |-> "str", v |-> s]

PyNone == [kind |-> "None", v |-> None]

\* VHSTape.edit_plugin_config("prompt", True): the arguments of the call
PromptConfigCall == [value |-> PyBool(TRUE), original_value |-> PyNone]

\* str(value), and str(value).lower() for a bool
StrOf(value) ==
    IF value.kind = "bool" THEN (IF value.v THEN "True" ELSE "False")
    ELSE value.v

LowerBool(s) ==
    CASE s = "True" -> "true" [] s = "False" -> "false" [] OTHER -> s

\* the mutated test: the elif branch is missing, nothing raises
EditPluginConfigNeverRaises(value, original_value) == FALSE

\* edit_plugin_config raises ValueError for these arguments
EditPluginConfigRaises(value, original_value) ==
    value.kind # "bool" /\ original_value.kind = "None"

\* the sed command line typed for a configuration option and a value
SedCommand(config_option, stringified) ==
    <<"Type ~sed -i 's/\\(", config_option, " = \\)\\w\\+,/\\1",
      stringified, ",/' ", PLUGIN_FILE_NAME, "~ Enter">>

\* the mutated builder: the original of a bool is str(value).lower(), the
\* not is missing
edit_plugin_config_not_inverted(config_option, value, original_value) ==
    LET stringified_value ==
            IF value.kind = "bool" THEN LowerBool(StrOf(value))
            ELSE StrOf(value)
        stringified_original_value ==
            IF value.kind = "bool" THEN LowerBool(StrOf(value))
            ELSE StrOf(original_value)
    IN  Script(<<SedCommand(config_option, stringified_value),
                 <<"Type ~chezmoi apply~ Enter">> >>,
               <<SedCommand(config_option, stringified_original_value)>>,
               <<"sed">>)

edit_plugin_config(config_option, value, original_value) ==
    LET stringified_value ==
            IF value.kind = "bool" THEN LowerBool(StrOf(value))
            ELSE StrOf(value)
        stringified_original_value ==
            IF value.kind = "bool" THEN LowerBool(StrOf(PyBool(~value.v)))
            ELSE StrOf(original_value)
    IN  Script(<<SedCommand(config_option, stringified_value),
                 <<"Type ~chezmoi apply~ Enter">> >>,
               <<SedCommand(config_option, stringified_original_value)>>,
               <<"sed">>)

\* the mutated list: the names are numbered from 0
NestedArchiveNamesFromZero(number_of_nested_archives, nested_archive_file_name) ==
    [number \in 1..number_of_nested_archives |->
        <<nested_archive_file_name, "-", ToString(number - 1), ".zip">>]

\* nested_archive_names_list
NestedArchiveNames(number_of_nested_archives, nested_archive_file_name) ==
    [number \in 1..number_of_nested_archives |->
        <<nested_archive_file_name, "-", ToString(number), ".zip">>]

create_nested_archive(number_of_nested_archives, archive_file_name, nested_archive_file_name, text_file_name, text_file_content) ==
    LET names == NestedArchiveNames(number_of_nested_archives,
                                    nested_archive_file_name)
        nested_archive_commands ==
            JoinNL([k \in 1..Len(names) |->
                << <<"Type \"7z a ">> \o names[k] \o <<" ">>
                   \o text_file_name \o <<"\" Enter">> >>])
        nested_archive_names == JoinSpace(names)
        create_archive_command ==
            << <<"Type \"7z a ">> \o archive_file_name \o <<" ">>
               \o nested_archive_names \o <<"\" Enter">> >>
        clean_up_commands ==
            << <<"Type \"rm ">> \o text_file_name \o <<" ">>
               \o nested_archive_names \o <<"\" Enter">> >>
        echo_command ==
            << <<"Type ~echo '", text_file_content, "' > ">>
               \o text_file_name \o <<"~ Enter">> >>
    IN  Script(JoinNL(<<echo_command, nested_archive_commands,
                        create_archive_command, clean_up_commands>>),
               EmptyStr,
               <<"echo", "7z", "rm">>)

\* the inline Script of "Extract must have hovered item": the first
\* setupCount paths are moved away in setup, cleanUpCount moved back
MoveToGitScript(setupCount, cleanUpCount) ==
    Script(JoinNL([index \in 1..setupCount |->
               << <<"Type ~mv \"", FieldOf(index - 1), "\" \"./.git/\"~ Enter">> >>]),
           JoinNL([index \in 1..cleanUpCount |->
               << <<"Type ~mv \"./.git/", FieldOf(index - 1), "\" \"./\"~ Enter">> >>]),
           <<"mv">>)

\* the inline Script of "Leave skip single subdirectory"
ChangeDirectoryScript ==
    Script(<< <<"Type ~cd './.github/workflows/'~ Enter">> >>, EmptyStr, <<>>)

(***************************************************************************)
(* class VHSTape                                                           *)
(***************************************************************************)
\* the mutated baseline: clear is forgotten
BaselineWithoutClear == {"yazi"}

\* the programs every tape requires
BaselinePrograms == {"yazi", "clear"}

\* the union of the required_programs lists of the scripts
ScriptPrograms(scripts) ==
    UNION {{scripts[i].required_programs[k] :
                k \in 1..Len(scripts[i].required_programs)} :
           i \in 1..Len(scripts)}

\* VHSTape.__init__
VHSTapeInit(name, files_and_directories, scripts, shell_body, yazi_body, skip_quitting_yazi, editor) ==
    [name |-> name,
     file_name |-> ReplaceSpaces(Lower(name)),
     files_and_directories |-> files_and_directories,
     shell_body |-> shell_body,
     yazi_body |-> yazi_body,
     skip_quitting_yazi |-> skip_quitting_yazi,
     editor |-> editor,
     setup |-> [i \in 1..Len(scripts) |-> scripts[i].setup],
     clean_up |-> [i \in 1..Len(scripts) |-> scripts[i].clean_up],
     required_programs |->
         ScriptPrograms(scripts) \cup BaselinePrograms
         \cup (IF Truthy(editor) THEN {editor} ELSE {})]

\* __str__: the set files_and_directories_to_clean_up
FilesToCleanUp(files_and_directories) ==
    UNION {{StripSlash(files_and_directories[i])}
           \cup (IF PathSuffix(files_and_directories[i])
                        \in ARCHIVE_FILE_EXTENSIONS
                 THEN {PathStem(files_and_directories[i])} ELSE {}) :
           i \in 1..Len(files_and_directories)}

\* __str__: rm joins the required programs of the tape when there is
\* something to clean up
AddRm(required_programs, to_clean_up) ==
    IF to_clean_up # {} THEN required_programs \cup {"rm"}
    ELSE required_programs

\* __str__: f"Output videos/{self.file_name}.mp4"
OutputLine(file_name) == << <<"Output videos/">> \o file_name \o <<".mp4">> >>

\* __str__: f'Require "{program}"'
RequireLine(program) == << <<"Require \"", program, "\"">> >>

\* __str__: the Require lines, in the iteration order of the set
RequireBlock(required_programs, seed) ==
    LET order == IterTools(required_programs, seed) IN
    JoinNL([k \in 1..Len(order) |-> RequireLine(order[k])])

\* __str__: the command that opens yazi
OpenYazi(editor) ==
    IF Truthy(editor)
    THEN << <<"Type \"", "EDITOR=", editor, " yazi", "\" Enter">> >>
    ELSE << <<"Type \"", "yazi", "\" Enter">> >>

\* __str__: quit_yazi_commands
QuitYaziCommands == <<SLEEP_TIME, << <<"Type \"q\"">> >>, SHORT_SLEEP_TIME>>

\* __str__: the rm line of the clean up section
RmLine(to_clean_up, seed) ==
    IF to_clean_up # {}
    THEN << <<"Type 'rm -rf ">> \o JoinSpace(IterPaths(to_clean_up, seed))
            \o <<"' Enter">> >>
    ELSE EmptyStr

\* __str__: clean_up_section, empty when the condition of the if fails
CleanUpSection(clean_up, to_clean_up, seed) ==
    IF clean_up # <<>> \/ to_clean_up # {}
    THEN << << <<"Hide">> >>, FAST_TYPING_SPEED, JoinNL(clean_up),
            RmLine(to_clean_up, seed) >>
    ELSE <<>>

\* the mutated end of the tape: the clean up section before the quit commands
TapeEndCleanUpFirst(tape, to_clean_up, seed) ==
    CleanUpSection(tape.clean_up, to_clean_up, seed)
    \o (IF ~tape.skip_quitting_yazi THEN QuitYaziCommands ELSE <<>>)

\* __str__: what the two ifs append to lines: the quit commands unless they
\* are skipped, then the clean up section
TapeEnd(tape, to_clean_up, seed) ==
    (IF ~tape.skip_quitting_yazi THEN QuitYaziCommands ELSE <<>>)
    \o CleanUpSection(tape.clean_up, to_clean_up, seed)

\* __str__: the list lines, with the quit commands and the clean up section
TapeLines(tape, required_programs, to_clean_up, seed) ==
    << OutputLine(tape.file_name),
       RequireBlock(required_programs, seed),
       CONFIG,
       << <<"Hide">> >>,
       FAST_TYPING_SPEED,
       CHANGE_TO_WORKING_DIRECTORY,
       JoinNL(tape.setup),
       CLEAR_SCREEN,
       << <<"Show">> >>,
       NORMAL_TYPING_SPEED,
       JoinNL(tape.shell_body),
       OpenYazi(tape.editor),
       SLEEP_TIME,
       JoinNL(tape.yazi_body) >>
    \o TapeEnd(tape, to_clean_up, seed)

\* __str__: "\n".join(lines).format(*self.files_and_directories).strip()
FormatTape(lines, files_and_directories) ==
    IF FormatRaises(JoinNL(lines), files_and_directories)
    THEN [status |-> "IndexError", text |-> EmptyStr]
    ELSE [status |-> "ok",
          text |-> Strip(Format(JoinNL(lines), files_and_directories))]

\* the mutated variant of __str__ that builds the lines from the programs
\* as they were and adds rm afterwards
StrLateRm(tape, seed) ==
    LET to_clean_up == FilesToCleanUp(tape.files_and_directories)
        required == AddRm(tape.required_programs, to_clean_up)
    IN  [tape |-> [tape EXCEPT !.required_programs = required],
         out |-> FormatTape(TapeLines(tape, tape.required_programs,
                                      to_clean_up, seed),
                            tape.files_and_directories)]

\* VHSTape.__str__ (and to_string): the tape after the call and the value
\* returned, or the exception raised
Str(tape, seed) ==
    LET to_clean_up == FilesToCleanUp(tape.files_and_directories)
        required == AddRm(tape.required_programs, to_clean_up)
    IN  [tape |-> [tape EXCEPT !.required_programs = required],
         out |-> FormatTape(TapeLines(tape, required, to_clean_up, seed),
                            tape.files_and_directories)]

\* the mutated path: the file name of the tape is not in it
GetFilePathWithoutName(tape) == <<"./vhs_tapes/">> \o <<".tape">>

\* VHSTape.get_file_path
GetFilePath(tape) == <<"./vhs_tapes/">> \o tape.file_name \o <<".tape">>

(***************************************************************************)
(* The documents the model renders: every combination of the arguments     *)
(* below.  The scripts and bodies are those of tapes of VHS_TAPES; the     *)
(* paths are the forms a path can take (a relative name, an archive, an    *)
(* archive in a directory, an absolute directory with a trailing slash).   *)
(* A list of paths or scripts is a choice of at most MaxPaths, MaxScripts  *)
(* elements of the lists below, in their order.                            *)
(***************************************************************************)
RECURSIVE Select(_, _, _)
\* the elements of list at the indices of I from k on, in the order of list
Select(list, I, k) ==
    IF k > Len(list) THEN <<>>
    ELSE (IF k \in I THEN <<list[k]>> ELSE <<>>) \o Select(list, I, k + 1)

\* the lists of at most n elements of list, in the order of list
SubLists(list, n) ==
    {Select(list, I, 1) :
        I \in {J \in SUBSET (1..Len(list)) : Cardinality(J) <= n}}

PathChoices ==
    << <<"demo", ".zip">>, <<"demo">>, <<"dir", "/", "demo", ".zip">>,
       <<"/", "tmp", "/", "demo", "/">> >>

ScriptChoices ==
    << edit_plugin_config("prompt", PyBool(TRUE), PyNone),
       ChangeDirectoryScript,
       create_nested_archive(1, <<"{0}">>, "nested", <<"demo", ".txt">>,
                             DEFAULT_TEXT_FILE_CONTENT),
       MoveToGitScript(1, 1) >>

\* shell_body of "Extract recursively extract archives", or none
ShellBodyChoices ==
    { <<>>, << << <<"Type ~7z l ", "{0}", "~ Enter">> >>, LONG_SLEEP_TIME >> }

\* yazi_body of "Leave skip single subdirectory" and (shortened) of
\* "Extract recursively extract archives"
YaziBodyChoices ==
    { << << <<"Type \"h\"">> >>, SLEEP_TIME, << <<"Right">> >> >>,
      << << <<"Type \"/", "{0}", "\" Enter">> >>, SLEEP_TIME,
         << <<"Type \"/", "{1}", "\" Enter">> >> >> }

OpenPrompt == <<"O", "p", "e", "n", " ", "p", "r", "o", "m", "p", "t">>

\* the constructor arguments of the generated documents
DocumentArgs ==
    [name : {OpenPrompt},
     files_and_directories : SubLists(PathChoices, MaxPaths),
     scripts : SubLists(ScriptChoices, MaxScripts),
     shell_body : ShellBodyChoices,
     yazi_body : YaziBodyChoices,
     skip_quitting_yazi : BOOLEAN,
     editor : {None, "nano"}]

Build(a) ==
    VHSTapeInit(a.name, a.files_and_directories, a.scripts, a.shell_body,
                a.yazi_body, a.skip_quitting_yazi, a.editor)

NotRendered == [status |-> "none", text |-> EmptyStr]

\* args.search_term: None, or the str given with -s
NoSearchTerm == [given |-> FALSE, text |-> <<>>]

SearchTerm(text) == [given |-> TRUE, text |-> text]

(***************************************************************************)
(* The specification of a document: one tape is built, then __str__ is     *)
(* called on it any number of times.  main() does not run.                 *)
(***************************************************************************)
InitDocument ==
    /\ \E a \in DocumentArgs :
          /\ built = <<a>>
          /\ tapes = <<Build(a)>>
    /\ rendered = <<NotRendered>>
    /\ prevRendered = <<NotRendered>>
    /\ hashSeed \in 0..MaxSeed
    /\ pc = "idle"
    /\ hostTheme = "dark"
    /\ initial_theme = None
    /\ search_term = NoSearchTerm
    /\ vhs_tapes = <<>>
    /\ dirExists = FALSE
    /\ files = <<>>
    /\ threads = <<>>
    /\ recIndex = 0
    /\ running = {}
    /\ recLog = <<>>
    /\ darkmanLog = <<>>
    /\ configCall = PromptConfigCall
    /\ batch = "idle"
    /\ jobs = <<>>
    /\ shell = NoShell

\* a call of str(tape) / tape.to_string() that returns
Render(i) ==
    LET r == Str(tapes[i], hashSeed) IN
    /\ r.out.status = "ok"
    /\ tapes' = [tapes EXCEPT ![i] = r.tape]
    /\ prevRendered' = [prevRendered EXCEPT ![i] = rendered[i]]
    /\ rendered' = [rendered EXCEPT ![i] = r.out]
    /\ UNCHANGED <<built, hashSeed>>
    /\ UNCHANGED <<mainVars, otherVars>>

\* a call of str(tape) / tape.to_string() that raises IndexError
RenderRaises(i) ==
    LET r == Str(tapes[i], hashSeed) IN
    /\ r.out.status = "IndexError"
    /\ tapes' = [tapes EXCEPT ![i] = r.tape]
    /\ prevRendered' = [prevRendered EXCEPT ![i] = rendered[i]]
    /\ rendered' = [rendered EXCEPT ![i] = r.out]
    /\ UNCHANGED <<built, hashSeed>>
    /\ UNCHANGED <<mainVars, otherVars>>

Next ==
    \/ \E i \in 1..Len(tapes) : Render(i)
    \/ \E i \in 1..Len(tapes) : RenderRaises(i)

Spec == InitDocument /\ [][Next]_vars

(***************************************************************************)
(* VHS_TAPES as the driver sees it: three of its tapes, the bodies cut to  *)
(* their first lines.                                                      *)
(***************************************************************************)
OpenRecursivelyExtractArchives ==
    <<"O", "p", "e", "n", " ", "r", "e", "c", "u", "r", "s", "i", "v", "e",
      "l", "y", " ", "e", "x", "t", "r", "a", "c", "t", " ", "a", "r", "c",
      "h", "i", "v", "e", "s">>

EditorPrompt ==
    <<"E", "d", "i", "t", "o", "r", " ", "p", "r", "o", "m", "p", "t">>

VHS_TAPES_ARGS ==
    << [name |-> OpenPrompt,
        files_and_directories |-> <<>>,
        scripts |-> <<edit_plugin_config("prompt", PyBool(TRUE), PyNone)>>,
        shell_body |-> <<>>,
        yazi_body |-> << << <<"Type \"/cspell.json\" Enter">> >>,
                         << <<"Space@300ms 3">> >>,
                         << <<"Type \"l\"">> >>, SLEEP_TIME >>,
        skip_quitting_yazi |-> FALSE,
        editor |-> None],
       [name |-> OpenRecursivelyExtractArchives,
        files_and_directories |-> << <<"demo", ".zip">> >>,
        scripts |-> <<create_nested_archive(4, <<"{0}">>, "nested",
                          <<"demo", ".txt">>, DEFAULT_TEXT_FILE_CONTENT)>>,
        shell_body |-> << << <<"Type ~7z l ", "{0}", "~ Enter">> >>,
                          LONG_SLEEP_TIME >>,
        yazi_body |-> << << <<"Type \"/", "{0}", "\" Enter">> >>, SLEEP_TIME,
                         << <<"Type \"l\"">> >>, SLEEP_TIME,
                         << <<"Type \"h\"">> >> >>,
        skip_quitting_yazi |-> FALSE,
        editor |-> None],
       [name |-> EditorPrompt,
        files_and_directories |-> <<>>,
        scripts |-> <<edit_plugin_config("prompt", PyBool(TRUE), PyNone)>>,
        shell_body |-> <<>>,
        yazi_body |-> << << <<"Type \"/cspell.json\" Enter">> >>,
                         << <<"Space@300ms 3">> >>,
                         << <<"Type \"o\"">> >>, SLEEP_TIME >>,
        skip_quitting_yazi |-> FALSE,
        editor |-> "nano"] >>

VHS_TAPES == [i \in 1..Len(VHS_TAPES_ARGS) |-> Build(VHS_TAPES_ARGS[i])]

\* the name of every tape of VHS_TAPES, in the order of the list
VHS_TAPE_NAMES ==
    <<
       <<"O", "p", "e", "n", " ", "p", "r", "o", "m", "p", "t">>,
       <<"O", "p", "e", "n", " ", "b", "e", "h", "a", "v", "i", "o", "u",
         "r">>,
       <<"O", "p", "e", "n", " ", "a", "u", "t", "o", " ", "e", "x", "t",
         "r", "a", "c", "t", " ", "a", "r", "c", "h", "i", "v", "e", "s">>,
       <<"O", "p", "e", "n", " ", "r", "e", "c", "u", "r", "s", "i", "v",
         "e", "l", "y", " ", "e", "x", "t", "r", "a", "c", "t", " ", "a",
         "r", "c", "h", "i", "v", "e", "s">>,
       <<"E", "x", "t", "r", "a", "c", "t", " ", "m", "u", "s", "t", " ",
         "h", "a", "v", "e", " ", "h", "o", "v", "e", "r", "e", "d", " ",
         "i", "t", "e", "m">>,
       <<"E", "x", "t", "r", "a", "c", "t", " ", "h", "o", "v", "e", "r",
         "e", "d", " ", "i", "t", "e", "m", " ", "o", "p", "t", "i", "o",
         "n", "a", "l">>,
       <<"E", "x", "t", "r", "a", "c", "t", " ", "p", "r", "o", "m", "p",
         "t">>,
       <<"E", "x", "t", "r", "a", "c", "t", " ", "b", "e", "h", "a", "v",
         "i", "o", "u", "r">>,
       <<"E", "x", "t", "r", "a", "c", "t", " ", "r", "e", "c", "u", "r",
         "s", "i", "v", "e", "l", "y", " ", "e", "x", "t", "r", "a", "c",
         "t", " ", "a", "r", "c", "h", "i", "v", "e", "s">>,
       <<"E", "x", "t", "r", "a", "c", "t", " ", "e", "n", "c", "r", "y",
         "p", "t", "e", "d", " ", "a", "r", "c", "h", "i", "v", "e">>,
       <<"S", "m", "a", "r", "t", " ", "e", "n", "t", "e", "r">>,
       <<"E", "n", "t", "e", "r", " ", "s", "k", "i", "p", " ", "s", "i",
         "n", "g", "l", "e", " ", "s", "u", "b", "d", "i", "r", "e", "c",
         "t", "o", "r", "y">>,
       <<"L", "e", "a", "v", "e", " ", "s", "k", "i", "p", " ", "s", "i",
         "n", "g", "l", "e", " ", "s", "u", "b", "d", "i", "r", "e", "c",
         "t", "o", "r", "y">>,
       <<"R", "e", "n", "a", "m", "e", " ", "m", "u", "s", "t", " ", "h",
         "a", "v", "e", " ", "h", "o", "v", "e", "r", "e", "d", " ", "i",
         "t", "e", "m">>,
       <<"R", "e", "n", "a", "m", "e", " ", "h", "o", "v", "e", "r", "e",
         "d", " ", "i", "t", "e", "m", " ", "o", "p", "t", "i", "o", "n",
         "a", "l">>,
       <<"R", "e", "n", "a", "m", "e", " ", "p", "r", "o", "m", "p", "t">>,
       <<"R", "e", "n", "a", "m", "e", " ", "b", "e", "h", "a", "v", "i",
         "o", "u", "r">>,
       <<"R", "e", "m", "o", "v", "e", " ", "m", "u", "s", "t", " ", "h",
         "a", "v", "e", " ", "h", "o", "v", "e", "r", "e", "d", " ", "i",
         "t", "e", "m">>,
       <<"R", "e", "m", "o", "v", "e", " ", "h", "o", "v", "e", "r", "e",
         "d", " ", "i", "t", "e", "m", " ", "o", "p", "t", "i", "o", "n",
         "a", "l">>,
       <<"R", "e", "m", "o", "v", "e", " ", "p", "r", "o", "m", "p", "t">>,
       <<"R", "e", "m", "o", "v", "e", " ", "b", "e", "h", "a", "v", "i",
         "o", "u", "r">>,
       <<"C", "r", "e", "a", "t", "e", " ", "b", "e", "h", "a", "v", "i",
         "o", "u", "r">>,
       <<"C", "r", "e", "a", "t", "e", " ", "a", "n", "d", " ", "o", "p",
         "e", "n", " ", "f", "i", "l", "e", "s">>,
       <<"C", "r", "e", "a", "t", "e", " ", "a", "n", "d", " ", "e", "n",
         "t", "e", "r", " ", "d", "i", "r", "e", "c", "t", "o", "r", "i",
         "e", "s">>,
       <<"C", "r", "e", "a", "t", "e", " ", "a", "n", "d", " ", "o", "p",
         "e", "n", " ", "f", "i", "l", "e", "s", " ", "a", "n", "d", " ",
         "d", "i", "r", "e", "c", "t", "o", "r", "i", "e", "s">>,
       <<"C", "r", "e", "a", "t", "e", " ", "d", "e", "f", "a", "u", "l",
         "t", " ", "b", "e", "h", "a", "v", "i", "o", "u", "r">>,
       <<"S", "h", "e", "l", "l", " ", "m", "u", "s", "t", " ", "h", "a",
         "v", "e", " ", "h", "o", "v", "e", "r", "e", "d", " ", "i", "t",
         "e", "m">>,
       <<"S", "h", "e", "l", "l", " ", "h", "o", "v", "e", "r", "e", "d",
         " ", "i", "t", "e", "m", " ", "o", "p", "t", "i", "o", "n", "a",
         "l">>,
       <<"S", "h", "e", "l", "l", " ", "p", "r", "o", "m", "p", "t">>,
       <<"S", "h", "e", "l", "l", " ", "b", "e", "h", "a", "v", "i", "o",
         "u", "r">>,
       <<"S", "h", "e", "l", "l", " ", "e", "x", "i", "t", " ", "i", "f",
         " ", "d", "i", "r", "e", "c", "t", "o", "r", "y">>,
       <<"S", "m", "a", "r", "t", " ", "p", "a", "s", "t", "e">>,
       <<"S", "m", "a", "r", "t", " ", "t", "a", "b", " ", "c", "r", "e",
         "a", "t", "e">>,
       <<"S", "m", "a", "r", "t", " ", "t", "a", "b", " ", "s", "w", "i",
         "t", "c", "h">>,
       <<"Q", "u", "i", "t", " ", "w", "i", "t", "h", " ", "c", "o", "n",
         "f", "i", "r", "m", "a", "t", "i", "o", "n">>,
       <<"S", "m", "o", "o", "t", "h", " ", "a", "r", "r", "o", "w">>,
       <<"W", "r", "a", "p", "a", "r", "o", "u", "n", "d", " ", "a", "r",
         "r", "o", "w">>,
       <<"S", "m", "o", "o", "t", "h", " ", "w", "r", "a", "p", "a", "r",
         "o", "u", "n", "d", " ", "a", "r", "r", "o", "w">>,
       <<"P", "a", "r", "e", "n", "t", " ", "a", "r", "r", "o", "w">>,
       <<"S", "m", "o", "o", "t", "h", " ", "p", "a", "r", "e", "n", "t",
         " ", "a", "r", "r", "o", "w">>,
       <<"W", "r", "a", "p", "a", "r", "o", "u", "n", "d", " ", "p", "a",
         "r", "e", "n", "t", " ", "a", "r", "r", "o", "w">>,
       <<"S", "m", "o", "o", "t", "h", " ", "w", "r", "a", "p", "a", "r",
         "o", "u", "n", "d", " ", "p", "a", "r", "e", "n", "t", " ", "a",
         "r", "r", "o", "w">>,
       <<"E", "d", "i", "t", "o", "r", " ", "m", "u", "s", "t", " ", "h",
         "a", "v", "e", " ", "h", "o", "v", "e", "r", "e", "d", " ", "i",
         "t", "e", "m">>,
       <<"E", "d", "i", "t", "o", "r", " ", "h", "o", "v", "e", "r", "e",
         "d", " ", "i", "t", "e", "m", " ", "o", "p", "t", "i", "o", "n",
         "a", "l">>,
       <<"E", "d", "i", "t", "o", "r", " ", "p", "r", "o", "m", "p", "t">>,
       <<"E", "d", "i", "t", "o", "r", " ", "b", "e", "h", "a", "v", "i",
         "o", "u", "r">>,
       <<"P", "a", "g", "e", "r", " ", "m", "u", "s", "t", " ", "h", "a",
         "v", "e", " ", "h", "o", "v", "e", "r", "e", "d", " ", "i", "t",
         "e", "m">>,
       <<"P", "a", "g", "e", "r", " ", "h", "o", "v", "e", "r", "e", "d",
         " ", "i", "t", "e", "m", " ", "o", "p", "t", "i", "o", "n", "a",
         "l">>,
       <<"P", "a", "g", "e", "r", " ", "p", "r", "o", "m", "p", "t">>,
       <<"P", "a", "g", "e", "r", " ", "b", "e", "h", "a", "v", "i", "o",
         "u", "r">>
    >>

\* a tape of the given name, with no bodies
NamedTape(name) ==
    Build([name |-> name, files_and_directories |-> <<>>, scripts |-> <<>>,
           shell_body |-> <<>>, yazi_body |-> <<>>,
           skip_quitting_yazi |-> FALSE, editor |-> None])

\* the path of the script file of every tape of VHS_TAPES
VHS_TAPE_PATHS ==
    [n \in 1..Len(VHS_TAPE_NAMES) |-> GetFilePath(NamedTape(VHS_TAPE_NAMES[n]))]

\* the values of -s the model tries
SearchTerms ==
    { NoSearchTerm,
      SearchTerm(<<"p", "r", "o", "m", "p", "t">>),
      SearchTerm(<<"O", "P", "E", "N">>),
      SearchTerm(<<"p", "r", "o", "m", "p", "t", " ", "e", "d", "i", "t">>),
      SearchTerm(<<"n", "_", "p">>),
      SearchTerm(<<>>) }

\* the exit statuses of a recorder process
ExitCodes == {0, 1}

(***************************************************************************)
(* main(): the search filter.                                              *)
(***************************************************************************)
RECURSIVE SplitWhitespace(_)
\* str.split(): the maximal runs of characters that are not spaces
SplitWhitespace(s) ==
    IF s = <<>> THEN <<>>
    ELSE IF Head(s) = " " THEN SplitWhitespace(Tail(s))
    ELSE LET n == IF \E k \in 1..Len(s) : s[k] = " "
                  THEN (CHOOSE k \in 1..Len(s) :
                           s[k] = " " /\ \A j \in 1..(k - 1) : s[j] # " ") - 1
                  ELSE Len(s)
         IN  <<SubSeq(s, 1, n)>> \o SplitWhitespace(SubSeq(s, n + 1, Len(s)))

\* term in s, for strs
Contains(s, term) ==
    \E k \in 0..(Len(s) - Len(term)) : SubSeq(s, k + 1, k + Len(term)) = term

\* the mutated lambda: any() in the place of all()
TapeMatchesAny(tape, term_text) ==
    LET terms == SplitWhitespace(Lower(term_text)) IN
    \E n \in 1..Len(terms) : Contains(Lower(tape.name), terms[n])

\* the lambda of the filter: all terms are in tape.name.lower()
TapeMatches(tape, term_text) ==
    LET terms == SplitWhitespace(Lower(term_text)) IN
    \A n \in 1..Len(terms) : Contains(Lower(tape.name), terms[n])

RECURSIVE FilterIndices(_, _, _)
\* list(filter(...)): the tapes that match, in the order of VHS_TAPES
FilterIndices(all, term_text, k) ==
    IF k > Len(all) THEN <<>>
    ELSE (IF TapeMatches(all[k], term_text) THEN <<k>> ELSE <<>>)
         \o FilterIndices(all, term_text, k + 1)

\* main(): the tapes selected (as indices into VHS_TAPES)
SelectTapes(all, term) ==
    IF term.given THEN FilterIndices(all, term.text, 1)
    ELSE [k \in 1..Len(all) |-> k]

(***************************************************************************)
(* main(): the driver.  pc is the statement main() is at.                  *)
(***************************************************************************)
\* the themes darkman get can print
Themes == {"light", "dark", "null"}

\* the mutated test: every theme that is not dark is taken for light
ThemeIsNotDark(theme) == theme # "dark"

\* if initial_theme == "light"
ThemeIsLight(theme) == theme = "light"

InitMain ==
    /\ built = VHS_TAPES_ARGS
    /\ tapes = VHS_TAPES
    /\ rendered = [i \in 1..Len(VHS_TAPES) |-> NotRendered]
    /\ prevRendered = [i \in 1..Len(VHS_TAPES) |-> NotRendered]
    /\ hashSeed \in 0..MaxSeed
    /\ pc = "mkdir"
    /\ hostTheme \in Themes
    /\ initial_theme = None
    /\ search_term \in SearchTerms
    /\ vhs_tapes = <<>>
    /\ dirExists \in BOOLEAN
    /\ files = <<>>
    /\ threads = <<>>
    /\ recIndex = 0
    /\ running = {}
    /\ recLog = <<>>
    /\ darkmanLog = <<>>
    /\ configCall = PromptConfigCall
    /\ batch = "idle"
    /\ jobs = <<>>
    /\ shell = NoShell

\* if not os.path.isdir(VHS_TAPES_DIRECTORY): os.mkdir(VHS_TAPES_DIRECTORY)
MakeDirectory ==
    /\ pc = "mkdir"
    /\ dirExists' = TRUE
    /\ pc' = "get_theme"
    /\ UNCHANGED <<hostTheme, initial_theme, search_term, vhs_tapes, files,
                   threads, recIndex, running, recLog, darkmanLog>>
    /\ UNCHANGED <<tapeVars, otherVars>>

\* darkman get; and darkman set dark if the theme is light
GetTheme ==
    /\ pc = "get_theme"
    /\ initial_theme' = hostTheme
    /\ IF ThemeIsLight(hostTheme)
       THEN /\ hostTheme' = "dark"
            /\ darkmanLog' = Append(darkmanLog, "dark")
       ELSE UNCHANGED <<hostTheme, darkmanLog>>
    /\ pc' = "filter"
    /\ UNCHANGED <<search_term, vhs_tapes, dirExists, files, threads,
                   recIndex, running, recLog>>
    /\ UNCHANGED <<tapeVars, otherVars>>

\* the filter on the search term, and the creation of the write coroutines
FilterTapes ==
    /\ pc = "filter"
    /\ vhs_tapes' = SelectTapes(tapes, search_term)
    /\ threads' = [k \in 1..Len(SelectTapes(tapes, search_term)) |-> "pending"]
    /\ pc' = "gather"
    /\ UNCHANGED <<hostTheme, initial_theme, search_term, dirExists, files,
                   recIndex, running, recLog, darkmanLog>>
    /\ UNCHANGED <<tapeVars, otherVars>>

\* write_to_file in its thread: open(self.get_file_path(), "w")
ThreadOpen(k) ==
    /\ pc = "gather"
    /\ threads[k] = "pending"
    /\ threads' = [threads EXCEPT ![k] = "open"]
    /\ files' = (GetFilePath(tapes[vhs_tapes[k]]) :> EmptyStr) @@ files
    /\ UNCHANGED <<pc, hostTheme, initial_theme, search_term, vhs_tapes,
                   dirExists, recIndex, running, recLog, darkmanLog>>
    /\ UNCHANGED <<tapeVars, otherVars>>

\* write_to_file in its thread: file.write(self.to_string()), and the close
ThreadWrite(k) ==
    LET i == vhs_tapes[k]
        r == Str(tapes[i], hashSeed)
    IN  /\ pc = "gather"
        /\ threads[k] = "open"
        /\ tapes' = [tapes EXCEPT ![i] = r.tape]
        /\ prevRendered' = [prevRendered EXCEPT ![i] = rendered[i]]
        /\ rendered' = [rendered EXCEPT ![i] = r.out]
        /\ IF r.out.status = "ok"
           THEN /\ files' = (GetFilePath(tapes[i]) :> r.out.text) @@ files
                /\ threads' = [threads EXCEPT ![k] = "done"]
           ELSE /\ files' = files
                /\ threads' = [threads EXCEPT ![k] = "raised"]
        /\ UNCHANGED <<built, hashSeed, pc, hostTheme, initial_theme,
                       search_term, vhs_tapes, dirExists, recIndex, running,
                       recLog, darkmanLog>>
        /\ UNCHANGED otherVars

\* the mutated wait: it returns when the first thread is done
\* (asyncio.wait with FIRST_COMPLETED)
GatherReturnsOnFirst(ths) ==
    Len(ths) = 0 \/ \E k \in 1..Len(ths) : ths[k] = "done"

\* asyncio.gather returns its results when every awaitable is done
GatherReturns(ths) == \A k \in 1..Len(ths) : ths[k] = "done"

\* await asyncio.gather(*threads): returns when every thread is done, raises
\* when a thread raised
Gather ==
    /\ pc = "gather"
    /\ \/ /\ GatherReturns(threads)
          /\ pc' = "record"
          /\ recIndex' = 1
       \/ /\ \E k \in 1..Len(threads) : threads[k] = "raised"
          /\ pc' = "crashed"
          /\ recIndex' = recIndex
    /\ UNCHANGED <<hostTheme, initial_theme, search_term, vhs_tapes,
                   dirExists, files, threads, running, recLog, darkmanLog>>
    /\ UNCHANGED <<tapeVars, otherVars>>

\* the mutated call of the recorder: the process is started and not awaited
\* (subprocess.Popen), the loop goes on to the next tape
AfterRecorderStartNoWait(index) == [pc |-> "record", recIndex |-> index + 1]

\* subprocess.run(["vhs", file_path]) returns when the process has exited:
\* main() stays in the call, at the same tape
AfterRecorderStart(index) == [pc |-> "wait", recIndex |-> index]

\* the mutated loop: the loop is left when the first recorder has returned
RecorderLoopDoneAfterFirst(index, selected) ==
    index > 1 \/ index > Len(selected)

\* the for loop over vhs_tapes has gone through every selected tape
RecorderLoopDone(index, selected) == index > Len(selected)

\* the recorder loop: subprocess.run starts vhs on the tape's file
RecorderStart ==
    /\ pc = "record"
    /\ ~RecorderLoopDone(recIndex, vhs_tapes)
    /\ running' = running \cup {vhs_tapes[recIndex]}
    /\ recLog' = Append(recLog, [event |-> "start", tape |-> vhs_tapes[recIndex],
                                 code |-> 0])
    /\ pc' = AfterRecorderStart(recIndex).pc
    /\ recIndex' = AfterRecorderStart(recIndex).recIndex
    /\ UNCHANGED <<hostTheme, initial_theme, search_term, vhs_tapes,
                   dirExists, files, threads, darkmanLog>>
    /\ UNCHANGED <<tapeVars, otherVars>>

\* the mutated return of subprocess.run: the call checks the status
\* (check=True) and a status other than 0 raises CalledProcessError
AfterRecorderExitChecked(index, code) ==
    IF code # 0 THEN [pc |-> "crashed", recIndex |-> index]
    ELSE [pc |-> "record", recIndex |-> index + 1]

\* subprocess.run returns a CompletedProcess whatever the status is, main()
\* drops it and the loop goes on to the next tape
AfterRecorderExit(index, code) == [pc |-> "record", recIndex |-> index + 1]

\* a recorder process exits, with any status; subprocess.run returns and the
\* status is dropped
RecorderExit(t, code) ==
    /\ t \in running
    /\ running' = running \ {t}
    /\ recLog' = Append(recLog, [event |-> "exit", tape |-> t, code |-> code])
    /\ IF pc = "wait" /\ vhs_tapes[recIndex] = t
       THEN /\ pc' = AfterRecorderExit(recIndex, code).pc
            /\ recIndex' = AfterRecorderExit(recIndex, code).recIndex
       ELSE UNCHANGED <<pc, recIndex>>
    /\ UNCHANGED <<hostTheme, initial_theme, search_term, vhs_tapes,
                   dirExists, files, threads, darkmanLog>>
    /\ UNCHANGED <<tapeVars, otherVars>>

\* shutil.rmtree(VHS_TAPES_DIRECTORY), after the loop
RemoveDirectory ==
    /\ pc = "record"
    /\ RecorderLoopDone(recIndex, vhs_tapes)
    /\ dirExists' = FALSE
    /\ files' = <<>>
    /\ pc' = "restore"
    /\ UNCHANGED <<hostTheme, initial_theme, search_term, vhs_tapes, threads,
                   recIndex, running, recLog, darkmanLog>>
    /\ UNCHANGED <<tapeVars, otherVars>>

\* darkman set light, if the theme was light initially
RestoreTheme ==
    /\ pc = "restore"
    /\ IF ThemeIsLight(initial_theme)
       THEN /\ hostTheme' = "light"
            /\ darkmanLog' = Append(darkmanLog, "light")
       ELSE UNCHANGED <<hostTheme, darkmanLog>>
    /\ pc' = "done"
    /\ UNCHANGED <<initial_theme, search_term, vhs_tapes, dirExists, files,
                   threads, recIndex, running, recLog>>
    /\ UNCHANGED <<tapeVars, otherVars>>

NextMain ==
    \/ MakeDirectory
    \/ GetTheme
    \/ FilterTapes
    \/ \E k \in 1..Len(threads) : ThreadOpen(k)
    \/ \E k \in 1..Len(threads) : ThreadWrite(k)
    \/ Gather
    \/ RecorderStart
    \/ \E t \in running : \E code \in ExitCodes : RecorderExit(t, code)
    \/ RemoveDirectory
    \/ RestoreTheme

SpecMain == InitMain /\ [][NextMain]_vars

(***************************************************************************)
(* Reading a rendered text.                                                *)
(***************************************************************************)
\* line n of a text; the lines past its end are empty (strip removed them)
LineAt(text, n) == IF n \in 1..Len(text) THEN text[n] ELSE <<>>

LastLine(text) == text[Len(text)]

\* a line that types a recursive delete
IsRmLine(line) == line # <<>> /\ Head(line) = "Type 'rm -rf "

RECURSIVE SplitSpace(_)
\* the words of a line, the token " " separating them
SplitSpace(line) ==
    IF \A k \in 1..Len(line) : line[k] # " " THEN <<line>>
    ELSE LET k == CHOOSE k \in 1..Len(line) :
                      line[k] = " " /\ \A j \in 1..(k - 1) : line[j] # " "
         IN  <<SubSeq(line, 1, k - 1)>>
             \o SplitSpace(SubSeq(line, k + 1, Len(line)))

\* the paths a recursive-delete line names, in order
RmTargets(line) == SplitSpace(SubSeq(line, 2, Len(line) - 1))

\* how often a path is named by a recursive-delete line
TimesNamed(line, path) ==
    Cardinality({k \in 1..Len(RmTargets(line)) : RmTargets(line)[k] = path})

\* a registered path is an archive: its name ends in .zip or .7z
IsArchivePath(path) ==
    LET q == RStripSlash(path) IN
    Len(q) > 1 /\ q[Len(q)] \in {".zip", ".7z"}

\* the path without its extension: dir/demo.zip gives dir/demo
WithoutExtension(path) ==
    LET q == RStripSlash(path) IN SubSeq(q, 1, Len(q) - 1)

\* a line with every placeholder {i} replaced by the i-th path
Resolve(line, P) ==
    Flatten([k \in 1..Len(line) |->
        CASE line[k] = "{0}" -> P[1]
          [] line[k] = "{1}" -> P[2]
          [] line[k] = "{2}" -> P[3]
          [] OTHER -> <<line[k]>>])

\* the rendered line begins and ends as the line of the template does
SameShape(out, tmpl) ==
    IF tmpl = <<>> THEN out = <<>>
    ELSE out # <<>> /\ Head(out) = Head(tmpl)
         /\ out[Len(out)] = tmpl[Len(tmpl)]

\* the lines a list of strs gives when joined by newlines
Joined(list) == IF Len(list) = 0 THEN << <<>> >> ELSE Flatten(list)

\* the sections of document i as its constructor was given them
SetupOf(i) ==
    Joined([k \in 1..Len(built[i].scripts) |-> built[i].scripts[k].setup])

CleanUpOf(i) ==
    Joined([k \in 1..Len(built[i].scripts) |-> built[i].scripts[k].clean_up])

ShellOf(i) == Joined(built[i].shell_body)

YaziOf(i) == Joined(built[i].yazi_body)

\* the number of the last line before each section of rendered document i
BeforeConfig(i) == 1 + Cardinality(tapes[i].required_programs)

BeforeSetup(i) == BeforeConfig(i) + 5 + 3

BeforeShell(i) == BeforeSetup(i) + Len(SetupOf(i)) + 3

BeforeYazi(i) == BeforeShell(i) + Len(ShellOf(i)) + 2

BeforeQuit(i) == BeforeYazi(i) + Len(YaziOf(i))

BeforeCleanUp(i) ==
    BeforeQuit(i) + (IF built[i].skip_quitting_yazi THEN 0 ELSE 3)

Ok(i) == rendered[i].status = "ok"

(***************************************************************************)
(* The claims about rendering.                                             *)
(***************************************************************************)

\* C1: rendering a Document never mutates it: every attribute of the
\* Document, its required-tool set included, has the same value after a
\* render as before it.
C1_RenderNeverMutates == [][tapes' = tapes]_vars

\* C2: rendering a Document twice in a row, with nothing in between, gives
\* the same result both times (the same text).
C2_RenderTwiceIdentical ==
    \A i \in 1..Len(tapes) :
        prevRendered[i].status # "none" => rendered[i] = prevRendered[i]

\* a document that got rm added by its first render was rendered twice
C2_Witness ==
    \E i \in 1..Len(tapes) :
        /\ prevRendered[i].status = "ok" /\ Ok(i)
        /\ "rm" \notin Build(built[i]).required_programs
        /\ "rm" \in tapes[i].required_programs

\* C3: in every reachable state the required-tool set of a Document is
\* exactly the union of the tools its fragments require, yazi and clear,
\* and the editor when there is one.
C3_RequiredIsUnion ==
    \A i \in 1..Len(tapes) :
        tapes[i].required_programs =
            UNION {{built[i].scripts[k].required_programs[j] :
                        j \in 1..Len(built[i].scripts[k].required_programs)} :
                   k \in 1..Len(built[i].scripts)}
            \cup {"yazi", "clear"}
            \cup (IF built[i].editor # None THEN {built[i].editor} ELSE {})

\* C4: the rendered text of every Document holds a Require line for yazi,
\* one for clear and, when an editor is set, one for the editor.
C4_BaselineRequired ==
    \A i \in 1..Len(tapes) :
        Ok(i) =>
            \A p \in {"yazi", "clear"}
                     \cup (IF built[i].editor # None
                           THEN {built[i].editor} ELSE {}) :
                \E l \in 1..Len(rendered[i].text) :
                    rendered[i].text[l] = <<"Require \"", p, "\"">>

\* a document with an editor and fragments with tools of their own
C4_Witness ==
    \E i \in 1..Len(tapes) :
        /\ Ok(i)
        /\ built[i].editor = "nano"
        /\ Len(built[i].scripts) = 2
        /\ \E l \in 1..Len(rendered[i].text) :
               rendered[i].text[l] = <<"Require \"", "sed", "\"">>

C6_ArchiveAndStemDeleted ==
    \A i \in 1..Len(tapes) :
        Ok(i) =>
            \A n \in 1..Len(built[i].files_and_directories) :
                LET path == built[i].files_and_directories[n]
                    last == LastLine(rendered[i].text)
                IN  IsArchivePath(path) =>
                        /\ IsRmLine(last)
                        /\ TimesNamed(last, RStripSlash(path)) = 1
                        /\ TimesNamed(last, WithoutExtension(path)) = 1

\* C7: when a path is registered the rendered text ends with a
\* recursive-delete line, it holds no other, and the line names every
\* registered path (the path itself, but for a trailing slash).
C7_EveryPathDeleted ==
    \A i \in 1..Len(tapes) :
        (Ok(i) /\ Len(built[i].files_and_directories) > 0) =>
            LET t == rendered[i].text IN
            /\ IsRmLine(LastLine(t))
            /\ \A l \in 1..(Len(t) - 1) : ~IsRmLine(t[l])
            /\ \A n \in 1..Len(built[i].files_and_directories) :
                   TimesNamed(LastLine(t),
                       RStripSlash(built[i].files_and_directories[n])) >= 1

\* C8: a Document whose fragments all have an empty clean up and that
\* registers no path renders no clean up block (no closing Hide and fast
\* typing speed lines), and without a registered path no delete line is
\* rendered.
C8_NoCleanUpBlockWhenNothingToCleanUp ==
    \A i \in 1..Len(tapes) :
        (Ok(i) /\ Len(built[i].files_and_directories) = 0) =>
            LET t == rendered[i].text IN
            /\ \A l \in 1..Len(t) : ~IsRmLine(t[l])
            /\ (\A k \in 1..Len(built[i].scripts) :
                    built[i].scripts[k].clean_up = << <<>> >>)
               => /\ Len(t) = BeforeCleanUp(i)
                  /\ t[Len(t)] # <<"Set TypingSpeed 0.1ms">>

\* C9: every rendered Document has its sections in the fixed order: Output,
\* the Require lines, the style, the hidden setup block (cd, the fragment
\* setups in fragment order, clear), the shell body, the command opening
\* yazi, the yazi body, the quit sequence exactly when it is not skipped,
\* and last the clean up block.
C9_SectionOrder ==
    \A i \in 1..Len(tapes) :
        Ok(i) =>
            LET t == rendered[i].text
                L(n) == LineAt(t, n)
                c == BeforeConfig(i)
                s == BeforeSetup(i)
                b == BeforeShell(i)
                y == BeforeYazi(i)
                q == BeforeQuit(i)
                e == BeforeCleanUp(i)
            IN  /\ Head(L(1)) = "Output videos/"
                /\ \A n \in 2..c : Head(L(n)) = "Require \""
                /\ L(c + 1) = <<"Set FontSize 20">>
                /\ L(c + 5) = <<"Set Margin 0">>
                /\ L(c + 6) = <<"Hide">>
                /\ L(c + 7) = <<"Set TypingSpeed 0.1ms">>
                /\ Head(L(c + 8)) = "Type \"cd "
                /\ \A k \in 1..Len(SetupOf(i)) :
                       SameShape(L(s + k), SetupOf(i)[k])
                /\ L(b - 2) = <<"Type 'clear' Enter">>
                /\ L(b - 1) = <<"Show">>
                /\ L(b) = <<"Set TypingSpeed 150ms">>
                /\ \A k \in 1..Len(ShellOf(i)) :
                       SameShape(L(b + k), ShellOf(i)[k])
                /\ L(y - 1)[Len(L(y - 1)) - 1] \in {"yazi", " yazi"}
                /\ L(y) = <<"Sleep 1s">>
                /\ \A k \in 1..Len(YaziOf(i)) :
                       SameShape(L(y + k), YaziOf(i)[k])
                /\ IF built[i].skip_quitting_yazi
                   THEN Len(t) = q \/ L(q + 1) = <<"Hide">>
                   ELSE /\ L(q + 1) = <<"Sleep 1s">>
                        /\ L(q + 2) = <<"Type \"q\"">>
                        /\ L(q + 3) = <<"Sleep 500ms">>
                /\ \/ Len(t) = e
                   \/ /\ L(e + 1) = <<"Hide">>
                      /\ L(e + 2) = <<"Set TypingSpeed 0.1ms">>
                      /\ \A k \in 1..Len(CleanUpOf(i)) :
                             SameShape(L(e + 2 + k), CleanUpOf(i)[k])
                      /\ Len(t) <= e + 2 + Len(CleanUpOf(i)) + 1
                      /\ Len(t) = e + 2 + Len(CleanUpOf(i)) + 1
                             => IsRmLine(LastLine(t))

\* a document with two fragments, both bodies, the quit sequence and paths
C9_Witness ==
    \E i \in 1..Len(tapes) :
        /\ Ok(i)
        /\ Len(built[i].scripts) = 2
        /\ Len(built[i].shell_body) > 0
        /\ ~built[i].skip_quitting_yazi
        /\ Len(CleanUpOf(i)) > 1
        /\ IsRmLine(LastLine(rendered[i].text))

(***************************************************************************)
(* The import of the module: VHS_TAPES is built when the module is loaded, *)
(* before main() is called.  The arguments of the first call of            *)
(* edit_plugin_config are drawn from the types of its parameters.          *)
(***************************************************************************)
\* value: int | float | str | bool
ConfigValues == {PyBool(TRUE), PyBool(FALSE), PyStr("5")}

\* original_value: int | float | str | None
ConfigOriginals == {PyNone, PyStr("3")}

ConfigCalls == [value : ConfigValues, original_value : ConfigOriginals]

\* the arguments of the tapes of VHS_TAPES, the first tape with the config
\* editor of the call
TapeArgsFor(call) ==
    [VHS_TAPES_ARGS EXCEPT
        ![1].scripts = <<edit_plugin_config("prompt", call.value,
                                            call.original_value)>>]

InitImport ==
    /\ built = <<>>
    /\ tapes = <<>>
    /\ rendered = <<>>
    /\ prevRendered = <<>>
    /\ hashSeed \in 0..MaxSeed
    /\ pc = "import"
    /\ hostTheme \in Themes
    /\ initial_theme = None
    /\ search_term \in {NoSearchTerm, SearchTerm(<<"O", "P", "E", "N">>)}
    /\ vhs_tapes = <<>>
    /\ dirExists = FALSE
    /\ files = <<>>
    /\ threads = <<>>
    /\ recIndex = 0
    /\ running = {}
    /\ recLog = <<>>
    /\ darkmanLog = <<>>
    /\ configCall \in ConfigCalls
    /\ batch = "idle"
    /\ jobs = <<>>
    /\ shell = NoShell

\* the module is loaded: the list VHS_TAPES is evaluated, then main() is
\* called; an exception of a builder ends the process before main()
ImportModule ==
    /\ pc = "import"
    /\ IF EditPluginConfigRaises(configCall.value, configCall.original_value)
       THEN /\ pc' = "ValueError"
            /\ UNCHANGED <<built, tapes, rendered, prevRendered>>
       ELSE /\ pc' = "mkdir"
            /\ built' = TapeArgsFor(configCall)
            /\ tapes' = [i \in 1..Len(VHS_TAPES_ARGS) |->
                             Build(TapeArgsFor(configCall)[i])]
            /\ rendered' = [i \in 1..Len(VHS_TAPES_ARGS) |-> NotRendered]
            /\ prevRendered' = [i \in 1..Len(VHS_TAPES_ARGS) |-> NotRendered]
    /\ UNCHANGED <<hashSeed, hostTheme, initial_theme, search_term, vhs_tapes,
                   dirExists, files, threads, recIndex, running, recLog,
                   darkmanLog>>
    /\ UNCHANGED otherVars

NextImport ==
    \/ ImportModule
    \/ NextMain

SpecImport == InitImport /\ [][NextImport]_vars

(***************************************************************************)
(* The claims about the driver.                                            *)
(***************************************************************************)

\* C10: the recorder invocations are strictly sequential: at most one
\* recorder process runs at any time, and the recorder of a Document is
\* started only when every recorder started before it has exited.
C10_RecorderSequential ==
    /\ Cardinality(running) <= 1
    /\ \A n \in 1..Len(recLog) :
           recLog[n].event = "start" =>
               \A m \in 1..(n - 1) :
                   recLog[m].event = "start" =>
                       \E x \in (m + 1)..(n - 1) :
                           /\ recLog[x].event = "exit"
                           /\ recLog[x].tape = recLog[m].tape

\* the recorder of the third selected Document runs, after two others
C10_Witness ==
    /\ Len(vhs_tapes) = 3
    /\ running = {vhs_tapes[3]}
    /\ Len(recLog) = 5

(***************************************************************************)
(* The claims about the loop and the filter.                               *)
(***************************************************************************)
\* the recorder invocations of tape t that were started, and those that
\* have returned, as positions of recLog
StartsOf(t) ==
    {n \in 1..Len(recLog) : recLog[n].event = "start" /\ recLog[n].tape = t}

ExitsOf(t) ==
    {n \in 1..Len(recLog) : recLog[n].event = "exit" /\ recLog[n].tape = t}

\* the selected tapes, as a set
Selected == {vhs_tapes[k] : k \in 1..Len(vhs_tapes)}

\* a recorder invocation has returned a status other than 0
SomeRecorderFailed ==
    \E n \in 1..Len(recLog) : recLog[n].event = "exit" /\ recLog[n].code # 0

\* C11: the recorder is invoked exactly once for every selected Document
\* whatever the exit statuses of earlier invocations are: no tape is recorded
\* twice, no exit status makes main() raise (while main() waits the recorder
\* it waits for is running, so main() goes on when it returns), and when
\* main() is past the loop every selected tape was recorded once, the script
\* directory is deleted and at the end the theme is the initial one.
C11_RecorderOncePerTape ==
    /\ \A t \in 1..Len(tapes) : Cardinality(StartsOf(t)) <= 1
    /\ \A t \in 1..Len(tapes) : t \notin Selected => StartsOf(t) = {}
    /\ pc # "crashed"
    /\ pc = "wait" => vhs_tapes[recIndex] \in running
    /\ pc \in {"restore", "done"} =>
           /\ \A t \in Selected :
                  Cardinality(StartsOf(t)) = 1 /\ Cardinality(ExitsOf(t)) = 1
           /\ ~dirExists
    /\ pc = "done" => hostTheme = initial_theme

\* main() is done, three tapes were selected, the first recorder failed and
\* the theme was light
C11_Witness ==
    /\ pc = "done"
    /\ Len(vhs_tapes) = 3
    /\ recLog[2] = [event |-> "exit", tape |-> vhs_tapes[1], code |-> 1]
    /\ initial_theme = "light"
    /\ hostTheme = "light"
    /\ ~dirExists

\* C12: the directory ./vhs_tapes is deleted only after the recorder
\* invocation of every selected Document has returned: while a recorder is
\* running or a selected tape is still to be recorded, the directory and the
\* script file of every selected tape not yet recorded exist, and the step
\* that removes a file or the directory is taken with no recorder running
\* and every selected tape recorded.
C12_DeleteAfterLastRecorder ==
    [][ (\/ (dirExists /\ ~dirExists')
         \/ \E path \in DOMAIN files : path \notin DOMAIN files')
        => /\ running = {}
           /\ \A t \in Selected : ExitsOf(t) # {}
           /\ pc = "record" ]_vars

\* the directory is gone after three recorder invocations
C12_Witness ==
    /\ pc = "restore"
    /\ ~dirExists
    /\ files = <<>>
    /\ Len(vhs_tapes) = 3
    /\ Len(recLog) = 6

\* C13: if the theme queried at the start is light, the theme is set to dark
\* before any recorder invocation and set back to light after the last one,
\* and the theme at the end is the theme at the start; for every other
\* theme no theme-switch command is issued at any point.
C13_ThemeRestored ==
    /\ initial_theme = None => darkmanLog = <<>> /\ recLog = <<>>
    /\ initial_theme = "light" =>
           /\ darkmanLog \in {<<"dark">>, <<"dark", "light">>}
           /\ darkmanLog = <<"dark">> => hostTheme = "dark"
           /\ darkmanLog = <<"dark", "light">> =>
                  /\ pc = "done"
                  /\ running = {}
                  /\ \A t \in Selected : ExitsOf(t) # {}
    /\ initial_theme \notin {None, "light"} => darkmanLog = <<>>
    /\ pc = "done" =>
           /\ hostTheme = initial_theme
           /\ initial_theme = "light" => darkmanLog = <<"dark", "light">>

\* a run that started in the light theme and recorded three tapes is done
C13_Witness ==
    /\ pc = "done"
    /\ initial_theme = "light"
    /\ darkmanLog = <<"dark", "light">>
    /\ Len(recLog) = 6

\* the terms of the filter: the maximal runs without a space of the
\* lower-cased search term
FilterTerms ==
    LET text == Lower(search_term.text) IN
    {SubSeq(text, r[1], r[2]) :
        r \in {q \in (1..Len(text)) \X (1..Len(text)) :
                  /\ q[1] <= q[2]
                  /\ \A k \in q[1]..q[2] : text[k] # " "
                  /\ q[1] = 1 \/ text[q[1] - 1] = " "
                  /\ q[2] = Len(text) \/ text[q[2] + 1] = " "}}

\* term stands somewhere in the string s
OccursIn(term, s) ==
    \E offset \in 0..Len(s) :
        /\ offset + Len(term) <= Len(s)
        /\ \A j \in 1..Len(term) : s[offset + j] = term[j]

\* the tapes whose normalized name (lower case, every space an underscore)
\* holds every term of the filter
ByNormalizedName ==
    {t \in 1..Len(tapes) :
        \A term \in FilterTerms : OccursIn(term, tapes[t].file_name)}

\* the tapes whose lower-cased display name holds every term of the filter
ByDisplayName ==
    {t \in 1..Len(tapes) :
        \A term \in FilterTerms : OccursIn(term, Lower(tapes[t].name))}

\* the tapes whose script file is there, and the tapes handed to a recorder
Written ==
    {t \in 1..Len(tapes) : GetFilePath(tapes[t]) \in DOMAIN files}

Recorded == {t \in 1..Len(tapes) : StartsOf(t) # {}}

\* the tapes written and recorded are the tapes of the set expected: none
\* but these is written or recorded, each of them is written when the
\* recorder loop runs and was recorded when the loop is over
SelectionIs(expected) ==
    /\ Written \subseteq expected
    /\ Recorded \subseteq expected
    /\ pc \in {"record", "wait"} => Written = expected
    /\ pc \in {"restore", "done"} => Recorded = expected

\* C14 as stated: the Documents written and recorded are exactly those whose
\* normalized name (lower case, spaces replaced by underscores) holds every
\* whitespace-split term of the filter, compared without case; with no
\* filter all are.
C14_SelectedByNormalizedName ==
    SelectionIs(IF search_term.given THEN ByNormalizedName
                ELSE 1..Len(tapes))

\* C14 amended: the Documents written and recorded are exactly those whose
\* lower-cased display name (the spaces kept) holds every whitespace-split
\* term of the filter, lower-cased; with no filter or an empty one all are,
\* and a Document not selected is neither written nor recorded.
C14_SelectedByDisplayName ==
    SelectionIs(IF search_term.given THEN ByDisplayName ELSE 1..Len(tapes))

\* a run with the filter "prompt edit" is done: one tape of three was
\* recorded
C14_Witness ==
    /\ pc = "done"
    /\ search_term.given
    /\ Cardinality(FilterTerms) = 2
    /\ Recorded = {3}
    /\ Len(recLog) = 2

(***************************************************************************)
(* The claims about the config editor.                                     *)
(***************************************************************************)
\* C15: building the config-editor fragment with a value that is not a bool
\* and no original value raises when the fragment is built, and that ends
\* the whole batch: no tape is built, no script file is written, the
\* directory is not made, the theme is neither queried nor switched and no
\* recorder is invoked.
C15_BuildErrorAbortsBatch ==
    (configCall.value.kind # "bool" /\ configCall.original_value.kind = "None")
    => /\ pc \in {"import", "ValueError"}
       /\ tapes = <<>>
       /\ files = <<>>
       /\ ~dirExists
       /\ initial_theme = None
       /\ darkmanLog = <<>>
       /\ recLog = <<>>
       /\ running = {}

\* the builder has raised, on a host in the light theme
C15_Witness ==
    /\ pc = "ValueError"
    /\ configCall = [value |-> PyStr("5"), original_value |-> PyNone]
    /\ hostTheme = "light"

\* the value a sed line of the config editor sets, and the option it sets
ValueSetBy(line) == line[4]

OptionSetBy(line) == line[2]

\* C16: the config-editor fragment built for the value True sets the option
\* to true in its setup and to false in its clean up; built for False it
\* sets false in the setup and true in the clean up; built for a value that
\* is not a bool with an explicit original, its setup sets the value and its
\* clean up sets the original.
C16_ConfigEditorValues ==
    pc \notin {"import", "ValueError"} =>
        LET value == configCall.value
            original_value == configCall.original_value
            set_line == built[1].scripts[1].setup[1]
            reset_line == built[1].scripts[1].clean_up[1]
        IN  /\ OptionSetBy(set_line) = "prompt"
            /\ OptionSetBy(reset_line) = "prompt"
            /\ value = PyBool(TRUE) =>
                   /\ ValueSetBy(set_line) = "true"
                   /\ ValueSetBy(reset_line) = "false"
            /\ value = PyBool(FALSE) =>
                   /\ ValueSetBy(set_line) = "false"
                   /\ ValueSetBy(reset_line) = "true"
            /\ (value.kind # "bool" /\ original_value.kind # "None") =>
                   /\ ValueSetBy(set_line) = value.v
                   /\ ValueSetBy(reset_line) = original_value.v

\* the fragment was built for the value 5 with the original 3, and the tape
\* that holds it was written
C16_Witness ==
    /\ pc = "record"
    /\ configCall = [value |-> PyStr("5"), original_value |-> PyStr("3")]
    /\ Len(built[1].scripts[1].clean_up) = 1

(***************************************************************************)
(* The claims about the write tasks.                                       *)
(***************************************************************************)
\* the write tasks that have opened their file
Writers(path) ==
    {k \in 1..Len(threads) :
        /\ threads[k] # "pending"
        /\ GetFilePath(tapes[vhs_tapes[k]]) = path}

\* C17: any two distinct Documents written in the same run have distinct
\* script paths, so no file is written by two write tasks: the paths of the
\* tapes of VHS_TAPES are pairwise distinct, the tapes of the run are among
\* them, and every file of the directory was opened by one task only.
C17_WritePathsDistinct ==
    /\ \A n, m \in 1..Len(VHS_TAPE_PATHS) :
           n # m => VHS_TAPE_PATHS[n] # VHS_TAPE_PATHS[m]
    /\ \A t \in 1..Len(tapes) :
           \E n \in 1..Len(VHS_TAPE_NAMES) : tapes[t].name = VHS_TAPE_NAMES[n]
    /\ \A k, j \in 1..Len(vhs_tapes) :
           k # j => GetFilePath(tapes[vhs_tapes[k]])
                        # GetFilePath(tapes[vhs_tapes[j]])
    /\ pc = "gather" =>
           \A path \in DOMAIN files : Cardinality(Writers(path)) = 1

\* three write tasks have their files open at the same time
C17_Witness ==
    /\ pc = "gather"
    /\ Len(threads) = 3
    /\ \A k \in 1..Len(threads) : threads[k] = "open"
    /\ Cardinality(DOMAIN files) = 3

(***************************************************************************)
(* The batch media converter.  Every discovered session file is a job: an  *)
(* external tool turns the session into an intermediate image sequence     *)
(* (stage 1), a second one encodes that into the video (stage 2), then the *)
(* intermediate file is removed.  The jobs run concurrently and the batch  *)
(* waits for all of them.  The exit status of a tool is not inspected, and *)
(* no tool has a timeout: a tool that hangs never returns.                 *)
(***************************************************************************)
\* a stage has returned, with whatever status
Returned == {"ok", "failed"}

\* a job as it is dispatched: no stage started, no file made
NewJob ==
    [stage1 |-> "idle", stage2 |-> "idle", intermediate |-> FALSE,
     output |-> FALSE, finished |-> FALSE]

InitConvert ==
    /\ built = <<>>
    /\ tapes = <<>>
    /\ rendered = <<>>
    /\ prevRendered = <<>>
    /\ hashSeed = 0
    /\ pc = "idle"
    /\ hostTheme = "dark"
    /\ initial_theme = None
    /\ search_term = NoSearchTerm
    /\ vhs_tapes = <<>>
    /\ dirExists = FALSE
    /\ files = <<>>
    /\ threads = <<>>
    /\ recIndex = 0
    /\ running = {}
    /\ recLog = <<>>
    /\ darkmanLog = <<>>
    /\ configCall = PromptConfigCall
    /\ batch = "start"
    /\ jobs = <<>>
    /\ shell = NoShell

\* the output directory is cleared once, the session files are discovered
\* and a job is dispatched for each of them, all at once
DispatchJobs(n) ==
    /\ batch = "start"
    /\ jobs' = [j \in 1..n |-> NewJob]
    /\ batch' = "dispatched"
    /\ UNCHANGED <<tapeVars, mainVars, configCall, shell>>

\* stage 1 of a job is started
StartStage1(j) ==
    /\ batch = "dispatched"
    /\ jobs[j].stage1 = "idle"
    /\ jobs' = [jobs EXCEPT ![j].stage1 = "running"]
    /\ UNCHANGED <<tapeVars, mainVars, configCall, shell, batch>>

\* stage 1 returns; a stage 1 that fails may or may not leave an
\* intermediate file
EndStage1(j, status, leaves_file) ==
    /\ jobs[j].stage1 = "running"
    /\ status = "ok" => leaves_file
    /\ jobs' = [jobs EXCEPT ![j].stage1 = status,
                            ![j].intermediate = leaves_file]
    /\ UNCHANGED <<tapeVars, mainVars, configCall, shell, batch>>

\* the tool of stage 1 hangs: it will not return
HangStage1(j) ==
    /\ jobs[j].stage1 = "running"
    /\ jobs' = [jobs EXCEPT ![j].stage1 = "hung"]
    /\ UNCHANGED <<tapeVars, mainVars, configCall, shell, batch>>

\* the mutated job: stage 2 is started together with stage 1, not after it
Stage2StartsWithStage1(job) == job.stage1 # "idle"

\* the mutated job: stage 2 is skipped when stage 1 has failed
Stage2OnlyAfterSuccess(job) == job.stage1 = "ok"

\* the job starts stage 2 when its stage 1 has returned, whatever the status
Stage2MayStart(job) == job.stage1 \in Returned

\* stage 2 of a job is started
StartStage2(j) ==
    /\ jobs[j].stage2 = "idle"
    /\ Stage2MayStart(jobs[j])
    /\ jobs' = [jobs EXCEPT ![j].stage2 = "running"]
    /\ UNCHANGED <<tapeVars, mainVars, configCall, shell, batch>>

\* stage 2 returns; the video is there when it has succeeded
EndStage2(j, status) ==
    /\ jobs[j].stage2 = "running"
    /\ jobs' = [jobs EXCEPT ![j].stage2 = status,
                            ![j].output = (status = "ok")]
    /\ UNCHANGED <<tapeVars, mainVars, configCall, shell, batch>>

\* the tool of stage 2 hangs: it will not return
HangStage2(j) ==
    /\ jobs[j].stage2 = "running"
    /\ jobs' = [jobs EXCEPT ![j].stage2 = "hung"]
    /\ UNCHANGED <<tapeVars, mainVars, configCall, shell, batch>>

\* the job removes its intermediate file, if there is one, when stage 2 has
\* returned; the job is finished then
RemoveIntermediate(j) ==
    /\ jobs[j].stage2 \in Returned
    /\ ~jobs[j].finished
    /\ jobs' = [jobs EXCEPT ![j].intermediate = FALSE, ![j].finished = TRUE]
    /\ UNCHANGED <<tapeVars, mainVars, configCall, shell, batch>>

\* the mutated wait: the batch waits for the first job that finishes
BatchMayCompleteOnFirst(js) ==
    Len(js) = 0 \/ \E j \in 1..Len(js) : js[j].finished

\* the wait for the batch returns when every job is finished
BatchMayComplete(js) == \A j \in 1..Len(js) : js[j].finished

\* the batch is complete
CompleteBatch ==
    /\ batch = "dispatched"
    /\ BatchMayComplete(jobs)
    /\ batch' = "complete"
    /\ UNCHANGED <<tapeVars, mainVars, configCall, shell, jobs>>

NextConvert ==
    \/ \E n \in 0..MaxJobs : DispatchJobs(n)
    \/ \E j \in 1..Len(jobs) : StartStage1(j)
    \/ \E j \in 1..Len(jobs) : \E status \in Returned :
          \E leaves_file \in BOOLEAN : EndStage1(j, status, leaves_file)
    \/ \E j \in 1..Len(jobs) : HangStage1(j)
    \/ \E j \in 1..Len(jobs) : StartStage2(j)
    \/ \E j \in 1..Len(jobs) : \E status \in Returned : EndStage2(j, status)
    \/ \E j \in 1..Len(jobs) : HangStage2(j)
    \/ \E j \in 1..Len(jobs) : RemoveIntermediate(j)
    \/ CompleteBatch

SpecConvert == InitConvert /\ [][NextConvert]_vars

(***************************************************************************)
(* The claims about the batch media converter.                             *)
(***************************************************************************)
\* C18: for every job, stage 2 is started only when the stage 1 of that job
\* has returned, and the intermediate file of the job is removed, and the
\* job finished, only when its stage 2 has returned; nothing orders the
\* stages of two jobs.
C18_StagesOrderedInJob ==
    [][ \A j \in 1..Len(jobs) :
          /\ (jobs[j].stage2 = "idle" /\ jobs'[j].stage2 # "idle")
                 => jobs[j].stage1 \in Returned
          /\ ((jobs[j].intermediate /\ ~jobs'[j].intermediate)
              \/ (~jobs[j].finished /\ jobs'[j].finished))
                 => jobs[j].stage2 \in Returned ]_vars

\* the second job is finished and its intermediate file removed while the
\* first job has not started its stage 1
C18_Witness ==
    /\ Len(jobs) = 2
    /\ jobs[1].stage1 = "idle"
    /\ jobs[2].stage1 = "ok"
    /\ jobs[2].stage2 = "ok"
    /\ jobs[2].finished
    /\ ~jobs[2].intermediate

\* C19: the batch is complete only when both stages of every discovered job
\* have returned and the job is finished; while a job is running or hung the
\* batch is not complete; a job that hangs takes no step away from another
\* job.
C19_BatchWaitsForAll ==
    /\ batch = "complete" =>
           \A j \in 1..Len(jobs) :
               /\ jobs[j].stage1 \in Returned
               /\ jobs[j].stage2 \in Returned
               /\ jobs[j].finished
    /\ (\E j \in 1..Len(jobs) :
            {jobs[j].stage1, jobs[j].stage2} \cap {"running", "hung"} # {})
           => batch # "complete"
    /\ \A j \in 1..Len(jobs) :
           /\ (batch = "dispatched" /\ jobs[j].stage1 = "idle")
                  => ENABLED StartStage1(j)
           /\ (jobs[j].stage1 \in Returned /\ jobs[j].stage2 = "idle")
                  => ENABLED StartStage2(j)
           /\ (jobs[j].stage2 \in Returned /\ ~jobs[j].finished)
                  => ENABLED RemoveIntermediate(j)

\* the first job hangs in its stage 1, the second job is finished and the
\* batch is not complete
C19_Witness ==
    /\ Len(jobs) = 2
    /\ jobs[1].stage1 = "hung"
    /\ jobs[2].finished
    /\ jobs[2].output
    /\ batch = "dispatched"

\* C20: when the stage 1 of a job fails the job goes on: its stage 2 can be
\* started, a job whose stage 1 failed is finished only with its stage 2
\* run and its intermediate file removed, and a failure in one job leaves
\* every other job its steps.
C20_FailureDoesNotStop ==
    \A j \in 1..Len(jobs) :
        /\ (jobs[j].stage1 = "failed" /\ jobs[j].stage2 = "idle")
               => ENABLED StartStage2(j)
        /\ (jobs[j].stage2 \in Returned /\ ~jobs[j].finished)
               => ENABLED RemoveIntermediate(j)
        /\ (jobs[j].stage1 = "failed" /\ jobs[j].finished)
               => jobs[j].stage2 \in Returned /\ ~jobs[j].intermediate
        /\ (\E k \in 1..Len(jobs) :
                k # j /\ "failed" \in {jobs[k].stage1, jobs[k].stage2})
               => /\ jobs[j].stage1 = "idle" => ENABLED StartStage1(j)
                  /\ jobs[j].stage1 = "running" =>
                         ENABLED EndStage1(j, "ok", TRUE)

\* the stage 1 of the first job failed and left a file, its stage 2 ran and
\* the file is removed; the second job made its video and the batch is
\* complete
C20_Witness ==
    /\ Len(jobs) = 2
    /\ jobs[1].stage1 = "failed"
    /\ jobs[1].stage2 \in Returned
    /\ jobs[1].finished
    /\ ~jobs[1].intermediate
    /\ jobs[2].output
    /\ batch = "complete"

(***************************************************************************)
(* The claims about the order of writing and recording.                    *)
(***************************************************************************)
\* the script file of the k-th selected tape is completely written: its
\* write task is done and the file holds the rendered text of the tape
CompletelyWritten(k) ==
    LET t == vhs_tapes[k] IN
    /\ threads[k] = "done"
    /\ GetFilePath(tapes[t]) \in DOMAIN files
    /\ rendered[t].status = "ok"
    /\ files[GetFilePath(tapes[t])] = rendered[t].text
    /\ files[GetFilePath(tapes[t])] # EmptyStr

\* C21: no recorder invocation starts before the script file of every
\* selected Document is completely written: a recorder is started only in a
\* state where every write task is done and every file holds its text, and
\* once a recorder was started no write task is pending or open.
C21_WrittenBeforeRecorded ==
    /\ [][ Len(recLog') > Len(recLog) /\ recLog'[Len(recLog')].event = "start"
           => \A k \in 1..Len(vhs_tapes) : CompletelyWritten(k) ]_vars
    /\ [](recLog # <<>> => \A k \in 1..Len(threads) : threads[k] = "done")

\* the first recorder runs and three script files are written
C21_Witness ==
    /\ pc = "wait"
    /\ Len(recLog) = 1
    /\ Len(vhs_tapes) = 3
    /\ \A k \in 1..3 : CompletelyWritten(k)

(***************************************************************************)
(* The keybinding-file builders (static methods of VHSTape).               *)
(***************************************************************************)
KEYMAP_TOML == "../../keymap.toml"

KEYMAP_TOML_BAK == "../../keymap.toml.bak"

\* create_keymap_toml_keybind: the three lines of a key bind; a double
\* quote is a token of its own
create_keymap_toml_keybind(key, command) ==
    << <<"[[manager.prepend_keymap]]">>,
       <<"on = [ ", "\"", key, "\"", " ]">>,
       <<"run = '", "plugin augment-command -- ", command, "'">> >>

\* str.replace('"', '\\"')
EscapeQuotes(text) ==
    [l \in 1..Len(text) |->
        [k \in 1..Len(text[l]) |->
            IF text[l][k] = "\"" THEN "\\\"" ELSE text[l][k]]]

\* str.replace("\n", "` Enter\nType `"): every line but the last ends the
\* Type command, every line but the first begins one
ReplaceNewlines(text) ==
    [l \in 1..Len(text) |->
        (IF l > 1 THEN <<"Type ~">> ELSE <<>>)
        \o text[l]
        \o (IF l < Len(text) THEN <<"~ Enter">> ELSE <<>>)]

\* an f-string with the text in its middle: the prefix joins the first line
\* of the text, the suffix its last line
Embed(prefix, text, suffix) ==
    [l \in 1..Len(text) |->
        (IF l = 1 THEN prefix ELSE <<>>)
        \o text[l]
        \o (IF l = Len(text) THEN suffix ELSE <<>>)]

create_keymap_toml(contents) ==
    LET fixed_contents ==
            Strip(ReplaceNewlines(EscapeQuotes(Strip(contents))))
    IN  Script(JoinNL(<< << <<"Type ~mv '", KEYMAP_TOML, "' '",
                              KEYMAP_TOML_BAK, "'~ Enter">> >>,
                         Embed(<<"Type ~echo \"">>, fixed_contents,
                               <<"\" > ", KEYMAP_TOML, "~ Enter">>) >>),
               JoinNL(<< << <<"Type 'rm ", KEYMAP_TOML, "' Enter">> >>,
                         << <<"Type ~mv '", KEYMAP_TOML_BAK, "' '",
                              KEYMAP_TOML, "'~ Enter">> >> >>),
               <<"mv", "echo", "rm">>)

\* create_keymap_toml_with_keymap: the keymap is the list of its items
create_keymap_toml_with_keymap(keymap) ==
    create_keymap_toml(
        JoinNL([n \in 1..Len(keymap) |->
                   create_keymap_toml_keybind(keymap[n][1], keymap[n][2])]))

(***************************************************************************)
(* The shell a recording types into.  The recorder types the lines of the  *)
(* Hide sections of a tape into a shell: the setup before the demo, the    *)
(* clean up after it.  The shell has a working directory and files; a file *)
(* is named by the directory the shell was in and the path typed.  A file  *)
(* is a text, a configuration (option -> value) or an archive (member ->   *)
(* file).  chezmoi apply copies the plugin file of the source directory to *)
(* the target the file manager reads.                                      *)
(***************************************************************************)
WorkDir == "WORKING_DIRECTORY"

WorkflowsDir == "WORKING_DIRECTORY/.github/workflows"

TargetDir == "target of chezmoi"

FileKey(dir, path) == [dir |-> dir, path |-> path]

TextFile(lines) == [kind |-> "text", lines |-> lines]

ConfigFile(options) == [kind |-> "config", options |-> options]

Archive(members) == [kind |-> "archive", members |-> members]

Put(fs, key, content) == (key :> content) @@ fs

Remove(fs, keys) == [k \in DOMAIN fs \ keys |-> fs[k]]

\* the shell reads \" inside double quotes as a double quote
Unescape(text) ==
    [l \in 1..Len(text) |->
        [k \in 1..Len(text[l]) |->
            IF text[l][k] = "\\\"" THEN "\"" ELSE text[l][k]]]

\* a line ends a double-quoted echo: ..." > path~ Enter
ClosesQuote(line) == Len(line) >= 3 /\ line[Len(line) - 2] = "\" > "

\* cd: the directory of the tapes, or .github/workflows below it
ExecCd(sh, line) ==
    IF Head(line) = "Type \"cd " THEN [sh EXCEPT !.cwd = WorkDir]
    ELSE IF sh.cwd = WorkDir THEN [sh EXCEPT !.cwd = WorkflowsDir]
    ELSE sh

\* sed -i 's/\(option = \)\w\+,/\1value,/' file
ExecSed(sh, line) ==
    LET key == FileKey(sh.cwd, <<line[6]>>) IN
    IF /\ key \in DOMAIN sh.fs
       /\ sh.fs[key].kind = "config"
       /\ line[2] \in DOMAIN sh.fs[key].options
    THEN [sh EXCEPT !.fs = Put(sh.fs, key,
             ConfigFile([sh.fs[key].options EXCEPT ![line[2]] = line[4]]))]
    ELSE sh


\* chezmoi apply
ExecChezmoiApply(sh) ==
    LET source == FileKey(WorkDir, <<PLUGIN_FILE_NAME>>) IN
    IF source \in DOMAIN sh.fs
    THEN [sh EXCEPT !.fs = Put(sh.fs, FileKey(TargetDir, <<PLUGIN_FILE_NAME>>),
                              sh.fs[source])]
    ELSE sh

\* mv 'source' 'destination'
ExecMv(sh, line) ==
    LET source == FileKey(sh.cwd, <<line[2]>>)
        destination == FileKey(sh.cwd, <<line[4]>>)
    IN  IF source \in DOMAIN sh.fs
        THEN [sh EXCEPT !.fs = Put(Remove(sh.fs, {source}), destination,
                                   sh.fs[source])]
        ELSE sh

\* rm and rm -rf: the paths named go, with what is below them
ExecRm(sh, paths) ==
    [sh EXCEPT !.fs =
        Remove(sh.fs,
               {k \in DOMAIN sh.fs :
                   /\ k.dir = sh.cwd
                   /\ \E n \in 1..Len(paths) :
                          \/ k.path = paths[n]
                          \/ /\ Len(k.path) > Len(paths[n])
                             /\ SubSeq(k.path, 1, Len(paths[n]) + 1)
                                    = paths[n] \o <<"/">>})]

\* 7z a archive file...: the files that exist are added to the archive
ExecSevenZip(sh, words) ==
    LET archive == FileKey(sh.cwd, words[1])
        old == IF archive \in DOMAIN sh.fs /\ sh.fs[archive].kind = "archive"
               THEN sh.fs[archive].members ELSE <<>>
        added == {words[n] : n \in 2..Len(words)}
                 \cap {k.path : k \in {q \in DOMAIN sh.fs : q.dir = sh.cwd}}
        members == [m \in added \cup DOMAIN old |->
                       IF m \in added THEN sh.fs[FileKey(sh.cwd, m)]
                       ELSE old[m]]
    IN  [sh EXCEPT !.fs = Put(sh.fs, archive, Archive(members))]

\* echo 'content' > path
ExecEchoSingle(sh, line) ==
    [sh EXCEPT !.fs = Put(sh.fs,
                          FileKey(sh.cwd, SubSeq(line, 4, Len(line) - 1)),
                          TextFile(<< <<line[2]>> >>))]

\* echo "content" > path, the content typed over one line or several: the
\* shell reads on until the quote is closed
ExecEchoDouble(sh, line) ==
    LET body == SubSeq(line, 2,
                       IF ClosesQuote(line) THEN Len(line) - 3
                       ELSE Len(line) - 1)
        lines == sh.quote \o <<body>>
    IN  IF ClosesQuote(line)
        THEN [sh EXCEPT !.quote = <<>>,
                        !.fs = Put(sh.fs,
                                   FileKey(sh.cwd, <<line[Len(line) - 1]>>),
                                   TextFile(Unescape(lines)))]
        ELSE [sh EXCEPT !.quote = lines]

\* the shell after a line of a Hide section was typed into it
ExecLine(sh, line) ==
    IF line = <<>> THEN sh
    ELSE IF sh.quote # <<>> \/ Head(line) = "Type ~echo \""
    THEN ExecEchoDouble(sh, line)
    ELSE IF Head(line) \in {"Type \"cd ", "Type ~cd './.github/workflows/'~ Enter"}
    THEN ExecCd(sh, line)
    ELSE IF Head(line) = "Type ~sed -i 's/\\(" THEN ExecSed(sh, line)
    ELSE IF line = <<"Type ~chezmoi apply~ Enter">> THEN ExecChezmoiApply(sh)
    ELSE IF Head(line) = "Type ~mv '" THEN ExecMv(sh, line)
    ELSE IF Head(line) = "Type 'rm " THEN ExecRm(sh, << <<line[2]>> >>)
    ELSE IF Head(line) \in {"Type \"rm ", "Type 'rm -rf "}
    THEN ExecRm(sh, SplitSpace(SubSeq(line, 2, Len(line) - 1)))
    ELSE IF Head(line) = "Type \"7z a "
    THEN ExecSevenZip(sh, SplitSpace(SubSeq(line, 2, Len(line) - 1)))
    ELSE IF Head(line) = "Type ~echo '" THEN ExecEchoSingle(sh, line)
    ELSE sh

(***************************************************************************)
(* The recording of one tape: the tape is written, the recorder types its  *)
(* setup into the shell, runs the demo, and types its clean up.  The       *)
(* documents are the combinations of the fragments below; the files are    *)
(* the plugin file with its option, applied, and the keybinding file or    *)
(* none.                                                                   *)
(***************************************************************************)
RunScriptChoices(number_of_nested_archives) ==
    << edit_plugin_config("prompt", PyBool(TRUE), PyNone),
       edit_plugin_config("prompt", PyStr("5"), PyStr("3")),
       create_keymap_toml_with_keymap(<< <<DEFAULT_KEY, "extract">> >>),
       create_keymap_toml_with_keymap(<< <<"q", "quit">> >>),
       create_nested_archive(number_of_nested_archives, <<"{0}">>, "nested",
                             <<"demo", ".txt">>, DEFAULT_TEXT_FILE_CONTENT),
       ChangeDirectoryScript >>

RunArgs ==
    UNION {[name : {OpenPrompt},
            files_and_directories : {<< <<"demo", ".zip">> >>},
            scripts : SubLists(RunScriptChoices(n), MaxScripts),
            shell_body : {<<>>},
            yazi_body : {<< << <<"Type \"h\"">> >>, SLEEP_TIME >>},
            skip_quitting_yazi : {FALSE},
            editor : {None}] : n \in 1..MaxNested}

\* the values the option has in the plugin file before the recording
OptionValues == {"true", "false", "3"}

\* the keybinding file the user has
OldKeymap == TextFile(<< <<"[[manager.prepend_keymap]]">>, <<"on = [ ", "\"", "x", "\"", " ]">> >>)

\* the files before the recording: the plugin file, applied, and the
\* keybinding file or none
InitialFiles ==
    {Put(Put(keymap, FileKey(WorkDir, <<PLUGIN_FILE_NAME>>),
             ConfigFile([prompt |-> v])),
         FileKey(TargetDir, <<PLUGIN_FILE_NAME>>), ConfigFile([prompt |-> v])) :
        v \in OptionValues,
        keymap \in {<<>>, Put(<<>>, FileKey(WorkDir, <<KEYMAP_TOML>>),
                              OldKeymap)}}

InitRun ==
    /\ \E a \in RunArgs :
          /\ built = <<a>>
          /\ tapes = <<Build(a)>>
    /\ rendered = <<NotRendered>>
    /\ prevRendered = <<NotRendered>>
    /\ hashSeed \in 0..MaxSeed
    /\ pc = "idle"
    /\ hostTheme = "dark"
    /\ initial_theme = None
    /\ search_term = NoSearchTerm
    /\ vhs_tapes = <<>>
    /\ dirExists = FALSE
    /\ files = <<>>
    /\ threads = <<>>
    /\ recIndex = 0
    /\ running = {}
    /\ recLog = <<>>
    /\ darkmanLog = <<>>
    /\ configCall = PromptConfigCall
    /\ batch = "idle"
    /\ jobs = <<>>
    /\ \E fs \in InitialFiles :
          shell = [phase |-> "ready", cwd |-> "HOME", fs |-> fs,
                   start |-> fs, quote |-> <<>>, todo |-> <<>>]

\* the tape is written to its file
WriteTape ==
    LET r == Str(tapes[1], hashSeed) IN
    /\ shell.phase = "ready"
    /\ r.out.status = "ok"
    /\ tapes' = [tapes EXCEPT ![1] = r.tape]
    /\ prevRendered' = [prevRendered EXCEPT ![1] = rendered[1]]
    /\ rendered' = [rendered EXCEPT ![1] = r.out]
    /\ shell' = [shell EXCEPT !.phase = "written"]
    /\ UNCHANGED <<built, hashSeed, mainVars, configCall, batch, jobs>>

\* the recorder starts on the tape: its lines are to be typed in order
StartRecording ==
    /\ shell.phase = "written"
    /\ shell' = [shell EXCEPT !.phase = "setup",
                              !.todo = rendered[1].text]
    /\ UNCHANGED <<tapeVars, mainVars, configCall, batch, jobs>>

\* the recorder types the next line into the shell; the line that opens
\* the file manager is left to RunDemo
TypeLine ==
    /\ shell.phase \in {"setup", "cleanup"}
    /\ shell.todo # <<>>
    /\ shell.phase = "setup" => <<Head(shell.todo)>> # OpenYazi(None)
    /\ shell' = [ExecLine(shell, Head(shell.todo)) EXCEPT
                    !.todo = Tail(shell.todo)]
    /\ UNCHANGED <<tapeVars, mainVars, configCall, batch, jobs>>

\* the setup is typed: the file manager opens, the lines of the demo are
\* typed into it, and the quit key closes it; what is left is typed into
\* the shell again
RunDemo ==
    /\ shell.phase = "setup"
    /\ shell.todo # <<>>
    /\ <<Head(shell.todo)>> = OpenYazi(None)
    /\ LET quit == CHOOSE n \in 1..Len(shell.todo) :
                       /\ <<shell.todo[n]>> = QuitYaziCommands[2]
                       /\ \A m \in 1..(n - 1) :
                             <<shell.todo[m]>> # QuitYaziCommands[2]
       IN  shell' = [shell EXCEPT
                        !.phase = "cleanup",
                        !.todo = SubSeq(shell.todo, quit + 1,
                                        Len(shell.todo))]
    /\ UNCHANGED <<tapeVars, mainVars, configCall, batch, jobs>>

\* the last line is typed: the recording is finished
FinishRecording ==
    /\ shell.phase = "cleanup"
    /\ shell.todo = <<>>
    /\ shell' = [shell EXCEPT !.phase = "finished"]
    /\ UNCHANGED <<tapeVars, mainVars, configCall, batch, jobs>>

NextRun ==
    \/ WriteTape
    \/ StartRecording
    \/ TypeLine
    \/ RunDemo
    \/ FinishRecording

SpecRun == InitRun /\ [][NextRun]_vars

(***************************************************************************)
(* The claims about a recording.                                           *)
(***************************************************************************)
\* the value of the option in the plugin file of a directory
OptionIn(fs, dir) == fs[FileKey(dir, <<PLUGIN_FILE_NAME>>)].options.prompt

\* the document is one configuration editor and nothing else
OnlyConfigEditor ==
    /\ Len(built[1].scripts) = 1
    /\ built[1].scripts[1] \in {RunScriptChoices(1)[1], RunScriptChoices(1)[2]}

\* C22: when the setup and then the clean up of a configuration editor
\* have run, the option has the value it had before the setup, both in
\* the edited plugin file and in the applied one.
C22_ConfigReverted ==
    (shell.phase = "finished" /\ OnlyConfigEditor)
        => /\ OptionIn(shell.fs, WorkDir) = OptionIn(shell.start, WorkDir)
           /\ OptionIn(shell.fs, TargetDir) = OptionIn(shell.start, TargetDir)

\* the keybinding fragments of the documents
KeymapScripts == {RunScriptChoices(1)[3], RunScriptChoices(1)[4]}

\* the document holds a keybinding fragment
HasKeymapScript ==
    \E k \in 1..Len(built[1].scripts) : built[1].scripts[k] \in KeymapScripts

\* what the files hold at a path where there is no file
NoFile == [kind |-> "none"]

\* the keybinding file and its backup in the files fs
KeymapIn(fs) ==
    IF FileKey(WorkDir, <<KEYMAP_TOML>>) \in DOMAIN fs
    THEN fs[FileKey(WorkDir, <<KEYMAP_TOML>>)]
    ELSE NoFile

BackupIn(fs) ==
    IF FileKey(WorkDir, <<KEYMAP_TOML_BAK>>) \in DOMAIN fs
    THEN fs[FileKey(WorkDir, <<KEYMAP_TOML_BAK>>)]
    ELSE NoFile

\* C23: when the setup and then the clean up of a document that holds a
\* keybinding fragment, alone or with other fragments, have run, the
\* keybinding file has exactly the content it had before the setup and
\* there is no backup file.
C23_KeymapRestored ==
    (shell.phase = "finished" /\ HasKeymapScript)
        => /\ KeymapIn(shell.fs) = KeymapIn(shell.start)
           /\ BackupIn(shell.fs) = NoFile

\* the archive fragment with count n of the documents
NestedArchiveScript(n) == RunScriptChoices(n)[5]

\* the document holds the archive fragment
HasNestedArchive ==
    \E k \in 1..Len(built[1].scripts), n \in 1..MaxNested :
        built[1].scripts[k] = NestedArchiveScript(n)

\* its number_of_nested_archives
NestedCount ==
    CHOOSE n \in 1..MaxNested :
        \E k \in 1..Len(built[1].scripts) :
            built[1].scripts[k] = NestedArchiveScript(n)

\* the setup of the document has been typed and the demo has not begun
SetupDone ==
    /\ shell.phase = "setup"
    /\ shell.todo # <<>>
    /\ <<Head(shell.todo)>> = OpenYazi(None)

\* the numbers of archives around the text files inside a file
RECURSIVE DepthsOf(_)
DepthsOf(file) ==
    IF file.kind = "archive"
    THEN {d + 1 : d \in UNION {DepthsOf(file.members[m]) :
                                  m \in DOMAIN file.members}}
    ELSE {0}

\* the file is an archive with one member at every level down to the text
RECURSIVE IsChain(_)
IsChain(file) ==
    file.kind = "archive"
        => /\ Cardinality(DOMAIN file.members) = 1
           /\ \A m \in DOMAIN file.members : IsChain(file.members[m])

\* the archive, the text file and the archives inside, as the setup
\* names them
DemoArchive == FileKey(WorkDir, <<"demo", ".zip">>)

DemoText == <<"demo", ".txt">>

NestedName(k) == <<"nested", "-", ToString(k), ".zip">>

\* the text file and the archives inside are not in the directory
IntermediatesGone ==
    /\ FileKey(WorkDir, DemoText) \notin DOMAIN shell.fs
    /\ \A k \in 1..NestedCount :
          FileKey(WorkDir, NestedName(k)) \notin DOMAIN shell.fs

\* C24 as stated: when the setup of the archive fragment with count N has
\* been typed, the archive holds the text file inside N archives, each
\* archive inside the one before, and the text file and the archives in
\* between are not in the directory.
C24_TextAtDepthN ==
    (SetupDone /\ HasNestedArchive)
        => /\ DemoArchive \in DOMAIN shell.fs
           /\ IsChain(shell.fs[DemoArchive])
           /\ DepthsOf(shell.fs[DemoArchive]) = {NestedCount}
           /\ IntermediatesGone

\* C24: when the setup of the archive fragment with count N has been
\* typed, the archive holds exactly the N archives nested-1.zip to
\* nested-N.zip side by side, each holds the text file with its content
\* and nothing else, so the text file is inside two archives whatever N
\* is; the text file and the N archives are not in the directory.
C24_NestedSideBySide ==
    (SetupDone /\ HasNestedArchive)
        => /\ DemoArchive \in DOMAIN shell.fs
           /\ shell.fs[DemoArchive].kind = "archive"
           /\ DOMAIN shell.fs[DemoArchive].members
                 = {NestedName(k) : k \in 1..NestedCount}
           /\ \A k \in 1..NestedCount :
                 shell.fs[DemoArchive].members[NestedName(k)]
                     = Archive(DemoText
                                :> TextFile(<< <<DEFAULT_TEXT_FILE_CONTENT>> >>))
           /\ DepthsOf(shell.fs[DemoArchive]) = {2}
           /\ IntermediatesGone

\* the setup of the archive fragment with count 3 has been typed
C24_Witness ==
    /\ SetupDone
    /\ HasNestedArchive
    /\ NestedCount = 3
    /\ DemoArchive \in DOMAIN shell.fs

====
